---- MODULE Spec2Model ----
(***************************************************************************)
(* The single-flight processing queue and idempotent ingress handler of    *)
(* the video processor service.                                            *)
(*                                                                         *)
(* The repository holds the service in two shapes whose queue code differs *)
(*   "guarded"  : video-processor-src/config/constants.js lines 90-544,    *)
(*                every admission guard, message id marked after success;  *)
(*   "analysis" : video-processor-src/config/constants.js lines 546-1348   *)
(*                and unnamed/part_001 (their middleware, processQueue and *)
(*                app.post are line for line the same), only the           *)
(*                processed-file guard, message id marked before the run,  *)
(*                and a file-existence check in front of the provider.     *)
(* The deployed shape is fixed at start-up (variable variant).             *)
(*                                                                         *)
(* One action is one run-to-completion section of the Node.js event loop:  *)
(* a request handler up to its first await, the continuation of an await,  *)
(* a timer callback.  Time is kept in milliseconds relative to the events  *)
(* the code waits for.                                                     *)
(***************************************************************************)
EXTENDS Integers, Sequences, FiniteSets, TLC

\* ------------------------------------------------------------- bounds ---
\* number of POST / deliveries in one behaviour
MaxDeliveries == 3
\* granularity of the clock, in milliseconds: with one tick per delay a
\* timer is either still pending or due
TickMs == 12000
\* number of deliveries that follow a backlog
\* number of deliveries in a behaviour followed to its end under fairness
MaxLiveDeliveries == 2
MaxBacklogDeliveries == 2
\* number of backlog jobs followed to their end
MaxBacklogCompletions == 2
\* number of entities handed to a categorizer
MaxEntities == 2
\* number of detections handed to the aggregation
MaxDetections == 3

\* ---------------------------------------------------------- constants ---
MAX_QUEUE_SIZE == 10
\* setTimeout(processQueue, 12000)
MIN_DELAY_MS == 12000

Variants == {"guarded", "analysis"}

\* ------------------------------------------------------------- inputs ---
\* File names are character sequences, so that toLowerCase / endsWith are
\* computed and not assumed.
mp4Name == <<"a", ".", "m", "p", "4">>
movName == <<"B", ".", "M", "O", "V">>
jpgName == <<"p", ".", "j", "p", "g">>
\* req.body.name undefined (or ""): falsy in `!fileName`
NoName == <<>>
FileNames == {mp4Name, movName, jpgName}

\* Nine more videos, known to the service only as jobs of a backlog.
backlogName(d) == <<d, ".", "m", "p", "4">>
BacklogNames ==
    {backlogName(d) : d \in {"1", "2", "3", "4", "5", "6", "7", "8", "9"}}
AllNames == FileNames \cup BacklogNames

\* Pub/Sub message ids.  The code only tests them for equality, so they
\* are numbered in order of first appearance: a push delivery carries an
\* id already on the wire (a redelivery) or the next fresh one.
MessageIds == {"m1", "m2"}
\* req.messageId undefined: falsy in `if (messageId)`
NoId == ""

\* message.data of a push envelope: either it does not survive
\* Buffer.from(..., "base64") / JSON.parse, or it decodes to a body whose
\* name field is the given one.
PushData == {[parses |-> FALSE, name |-> NoName]}
            \cup {[parses |-> TRUE, name |-> n] : n \in FileNames \cup {NoName}}

VARIABLES
    variant,              \* which index.js is deployed
    processedFiles,       \* Set of file names
    failedFiles,          \* Set of file names
    processedMessageIds,  \* Set of Pub/Sub message ids
    processingQueue,      \* array of {fileName, res, messageId}
    isProcessing,         \* the flag
    running,              \* processVideo calls in flight (awaiting)
    timers,               \* pending setTimeout(processQueue, 12000): ms left
    sinceDone,            \* ms since a job last left processQueue (-1: none yet)
    nreq,                 \* deliveries received so far (the next res is nreq + 1)
    lastDelivery,         \* the latest delivery and what the handler did with it
    responses,            \* per admitted delivery: statuses written to its res
    envelopes,            \* well-formed push envelopes <<id, name>> delivered so far
    envStatus,            \* <<id, name, status>> for each of them answered so far
    starts,               \* per file name: number of processVideo calls
    provided,             \* per file name: number of annotation rounds requested
    lastStarted,          \* res of the latest job processQueue dequeued (0: none)
    lastDone,             \* the latest job that left processQueue
    publishedIds,         \* message ids Pub/Sub has put on the wire so far
    calc                  \* a call of one of the pure functions: its
                          \* arguments and, once it returned, its result

queueVars == <<variant, processedFiles, failedFiles, processedMessageIds,
               processingQueue, isProcessing, running, timers, sinceDone,
               nreq, lastDelivery, responses, envelopes, envStatus, starts,
               provided, lastStarted, lastDone, publishedIds>>

vars == <<queueVars, calc>>

\* ------------------------------------------------------------ helpers ---
Range(s) == {s[i] : i \in 1..Len(s)}

Min(a, b) == IF a < b THEN a ELSE b

Max(a, b) == IF a > b THEN a ELSE b

\* String.prototype.toLowerCase, one character
lowerChar(c) ==
    CASE c = "A" -> "a" [] c = "B" -> "b" [] c = "C" -> "c"
      [] c = "D" -> "d" [] c = "E" -> "e" [] c = "F" -> "f"
      [] c = "G" -> "g" [] c = "H" -> "h" [] c = "I" -> "i"
      [] c = "J" -> "j" [] c = "K" -> "k" [] c = "L" -> "l"
      [] c = "M" -> "m" [] c = "N" -> "n" [] c = "O" -> "o"
      [] c = "P" -> "p" [] c = "Q" -> "q" [] c = "R" -> "r"
      [] c = "S" -> "s" [] c = "T" -> "t" [] c = "U" -> "u"
      [] c = "V" -> "v" [] c = "W" -> "w" [] c = "X" -> "x"
      [] c = "Y" -> "y" [] c = "Z" -> "z"
      [] OTHER -> c

toLowerCase(s) == [i \in 1..Len(s) |-> lowerChar(s[i])]

\* String.prototype.endsWith
endsWith(s, ext) ==
    /\ Len(s) >= Len(ext)
    /\ SubSeq(s, Len(s) - Len(ext) + 1, Len(s)) = ext

videoExtensions ==
    << <<".", "m", "p", "4">>, <<".", "m", "o", "v">>, <<".", "a", "v", "i">>,
       <<".", "m", "k", "v">>, <<".", "w", "e", "b", "m">> >>

isVideo(fileName) ==
    \E i \in 1..Len(videoExtensions) :
        endsWith(toLowerCase(fileName), videoExtensions[i])

Response(status, message) == [status |-> status, message |-> message]

\* --------------------------------------------------------------- Init ---
NoDelivery ==
    [kind |-> "none", messageId |-> NoId,
     data |-> [parses |-> FALSE, name |-> NoName],
     pushed |-> FALSE, afterAnswered |-> FALSE, response |-> Response(0, "")]

NoJob == [res |-> 0, fileName |-> NoName, ok |-> FALSE]

\* No pure function is being called.
NoCalc == [fn |-> "none"]

\* The service right after start-up.
QueueInit ==
    /\ variant \in Variants
    /\ processedFiles = {}
    /\ failedFiles = {}
    /\ processedMessageIds = {}
    /\ processingQueue = <<>>
    /\ isProcessing = FALSE
    /\ running = {}
    /\ timers = <<>>
    /\ sinceDone = -1
    /\ nreq = 0
    /\ lastDelivery = NoDelivery
    /\ responses = <<>>
    /\ envelopes = {}
    /\ envStatus = {}
    /\ starts = [f \in FileNames |-> 0]
    /\ provided = [f \in FileNames |-> 0]
    /\ lastStarted = 0
    /\ lastDone = NoJob
    /\ publishedIds = {}

Init == QueueInit /\ calc = NoCalc

\* ------------------------------------------------- Pub/Sub middleware ---
\* The middleware without the processedMessageIds.has(messageId) test.
pubsubMiddlewareNoDedup(kind, mid, data) ==
    IF kind = "push"
    THEN IF ~data.parses
         THEN [next |-> FALSE, name |-> NoName, messageId |-> NoId,
               response |-> Response(400, "Invalid Pub/Sub message format")]
         ELSE [next |-> TRUE, name |-> data.name, messageId |-> mid,
               response |-> Response(0, "")]
    ELSE [next |-> TRUE, name |-> data.name, messageId |-> NoId,
          response |-> Response(0, "")]

\* The middleware with a decode failure swallowed: the route gets an empty
\* body.
pubsubMiddlewareDecodeUnchecked(kind, mid, data) ==
    IF kind = "push"
    THEN IF mid \in processedMessageIds
         THEN [next |-> FALSE, name |-> NoName, messageId |-> NoId,
               response |-> Response(200, "Message already processed")]
         ELSE [next |-> TRUE, name |-> data.name, messageId |-> mid,
               response |-> Response(0, "")]
    ELSE [next |-> TRUE, name |-> data.name, messageId |-> NoId,
          response |-> Response(0, "")]

\* app.use((req, res, next) => ...): either answers the request itself
\* (next = FALSE) or hands body.name and req.messageId to the route.
pubsubMiddleware(kind, mid, data) ==
    IF kind = "push"
    THEN IF mid \in processedMessageIds
         THEN [next |-> FALSE, name |-> NoName, messageId |-> NoId,
               response |-> Response(200, "Message already processed")]
         ELSE IF ~data.parses
         THEN [next |-> FALSE, name |-> NoName, messageId |-> NoId,
               response |-> Response(400, "Invalid Pub/Sub message format")]
         ELSE [next |-> TRUE, name |-> data.name, messageId |-> mid,
               response |-> Response(0, "")]
    ELSE [next |-> TRUE, name |-> data.name, messageId |-> NoId,
          response |-> Response(0, "")]

\* ------------------------------------------------------ app.post("/") ---
\* An answer without its `return`: the handler goes on to push the job.
AnswerAndPush(status, message, mark) ==
    [push |-> TRUE, mark |-> mark, response |-> Response(status, message)]

\* What the route decides before it touches the queue: answer now
\* (push = FALSE), marking the message id or not, or push the job.
Answer(status, message, mark) ==
    [push |-> FALSE, mark |-> mark, response |-> Response(status, message)]

Enqueue == [push |-> TRUE, mark |-> FALSE, response |-> Response(0, "")]

\* The guarded route without its `if (!fileName)` test.
appPostGuardedNameUnchecked(fileName) ==
    IF fileName \in processedFiles
    THEN Answer(200, "File already processed successfully", TRUE)
    ELSE IF fileName \in failedFiles
    THEN Answer(200, "File has already failed processing", TRUE)
    ELSE IF ~isVideo(fileName)
    THEN Answer(200, "File is not a video, skipping processing", TRUE)
    ELSE IF Len(processingQueue) >= MAX_QUEUE_SIZE
    THEN Answer(429, "Processing queue is full", TRUE)
    ELSE IF \E i \in 1..Len(processingQueue) :
                processingQueue[i].fileName = fileName
    THEN Answer(200, "File is already in the processing queue", TRUE)
    ELSE Enqueue

\* constants.js 381-526
appPostGuarded(fileName) ==
    IF fileName = NoName
    THEN Answer(400, "Missing fileName in request", FALSE)
    ELSE IF fileName \in processedFiles
    THEN Answer(200, "File already processed successfully", TRUE)
    ELSE IF fileName \in failedFiles
    THEN Answer(200, "File has already failed processing", TRUE)
    ELSE IF ~isVideo(fileName)
    THEN Answer(200, "File is not a video, skipping processing", TRUE)
    ELSE IF Len(processingQueue) >= MAX_QUEUE_SIZE
    THEN Answer(429, "Processing queue is full", TRUE)
    ELSE IF \E i \in 1..Len(processingQueue) :
                processingQueue[i].fileName = fileName
    THEN Answer(200, "File is already in the processing queue", TRUE)
    ELSE Enqueue

\* The analysis route without its processedFiles.has(fileName) guard.
appPostAnalysisNoGuard(fileName) ==
    IF fileName = NoName
    THEN Answer(400, "Missing fileName in request", FALSE)
    ELSE Enqueue

\* constants.js 1299-1342, part_001 1224-1267
appPostAnalysis(fileName) ==
    IF fileName = NoName
    THEN Answer(400, "Missing fileName in request", FALSE)
    ELSE IF fileName \in processedFiles
    THEN Answer(200, "File already processed", FALSE)
    ELSE Enqueue

appPost(fileName) ==
    IF variant = "guarded" THEN appPostGuarded(fileName)
    ELSE appPostAnalysis(fileName)

\* ------------------------------------------------------- processVideo ---
\* The call of processVideo up to its first await.  In the guarded shape
\* that await is videoClient.annotateVideo(request) itself; in the
\* analysis shape it is storage.bucket(...).file(...).exists().
processVideo(job) ==
    /\ starts' = [starts EXCEPT ![job.fileName] = @ + 1]
    /\ provided' = IF variant = "guarded"
                   THEN [provided EXCEPT ![job.fileName] = @ + 1]
                   ELSE provided
    /\ lastStarted' = job.res

\* ------------------------------------------------------- processQueue ---
\* A processQueue invocation suspended at `await processVideo(...)`: the
\* job it dequeued, the queue length it logged on entry, the time since
\* the previous job left, and the await processVideo is suspended at.
inFlight(job, queueLength) ==
    [fileName |-> job.fileName, res |-> job.res, messageId |-> job.messageId,
     queueLength |-> queueLength, gap |-> sinceDone,
     pc |-> IF variant = "guarded" THEN "annotate" ELSE "exists"]

\* processQueue without the isProcessing test.
processQueueNoFlag(q, ids) ==
    IF Len(q) = 0
    THEN /\ processingQueue' = q
         /\ processedMessageIds' = ids
         /\ UNCHANGED <<isProcessing, running, starts, provided, lastStarted>>
    ELSE /\ isProcessing' = TRUE
         /\ processingQueue' = Tail(q)
         /\ processedMessageIds' =
               IF variant = "analysis" /\ Head(q).messageId # NoId
               THEN ids \cup {Head(q).messageId}
               ELSE ids
         /\ running' = running \cup {inFlight(Head(q), Len(q))}
         /\ processVideo(Head(q))

\* processQueue reading the oldest job (processingQueue[0]) without
\* removing it.
processQueuePeek(q, ids) ==
    IF isProcessing \/ Len(q) = 0
    THEN /\ processingQueue' = q
         /\ processedMessageIds' = ids
         /\ UNCHANGED <<isProcessing, running, starts, provided, lastStarted>>
    ELSE /\ isProcessing' = TRUE
         /\ processingQueue' = q
         /\ processedMessageIds' =
               IF variant = "analysis" /\ Head(q).messageId # NoId
               THEN ids \cup {Head(q).messageId}
               ELSE ids
         /\ running' = running \cup {inFlight(Head(q), Len(q))}
         /\ processVideo(Head(q))

\* processQueue taking the newest job (pop) instead of the oldest (shift).
processQueuePop(q, ids) ==
    IF isProcessing \/ Len(q) = 0
    THEN /\ processingQueue' = q
         /\ processedMessageIds' = ids
         /\ UNCHANGED <<isProcessing, running, starts, provided, lastStarted>>
    ELSE /\ isProcessing' = TRUE
         /\ processingQueue' = SubSeq(q, 1, Len(q) - 1)
         /\ processedMessageIds' =
               IF variant = "analysis" /\ q[Len(q)].messageId # NoId
               THEN ids \cup {q[Len(q)].messageId}
               ELSE ids
         /\ running' = running \cup {inFlight(q[Len(q)], Len(q))}
         /\ processVideo(q[Len(q)])

\* processQueue from its entry to the await of processVideo, run on the
\* queue q and the message-id set ids the caller leaves behind.
processQueue(q, ids) ==
    IF isProcessing \/ Len(q) = 0
    THEN /\ processingQueue' = q
         /\ processedMessageIds' = ids
         /\ UNCHANGED <<isProcessing, running, starts, provided, lastStarted>>
    ELSE /\ isProcessing' = TRUE
         /\ processingQueue' = Tail(q)
         /\ processedMessageIds' =
               IF variant = "analysis" /\ Head(q).messageId # NoId
               THEN ids \cup {Head(q).messageId}
               ELSE ids
         /\ running' = running \cup {inFlight(Head(q), Len(q))}
         /\ processVideo(Head(q))

\* The finally block without its setTimeout(processQueue, 12000).
processQueueFinallyNoTimer ==
    /\ isProcessing' = FALSE
    /\ timers' = timers
    /\ sinceDone' = 0

\* The finally block of processQueue.
processQueueFinally ==
    /\ isProcessing' = FALSE
    /\ timers' = IF Len(processingQueue) > 0
                 THEN Append(timers, MIN_DELAY_MS)
                 ELSE timers
    /\ sinceDone' = 0

\* res.status(status).json(...) on the res a job carries.
respond(j, status) ==
    /\ responses' = [responses EXCEPT ![j.res] = Append(@, status)]
    /\ envStatus' = IF j.messageId # NoId
                    THEN envStatus \cup {<<j.messageId, j.fileName, status>>}
                    ELSE envStatus

\* The push envelopes with a delivery still waiting for its answer.
pendingEnvelopes ==
    {<<j.messageId, j.fileName>> :
        j \in {x \in Range(processingQueue) : x.messageId # NoId}}
    \cup {<<j.messageId, j.fileName>> :
        j \in {x \in running : x.messageId # NoId}}

\* ------------------------------------------------------------ actions ---
\* The message id a first-time publication gets.
NextId ==
    IF "m1" \notin publishedIds THEN "m1" ELSE "m2"

\* One POST /: the middleware, the route and, when the job is pushed, the
\* processQueue() call the route makes, up to its first await.  limit is
\* the number of deliveries a behaviour is followed for.
Deliver(limit) ==
    /\ nreq < limit
    /\ \E kind \in {"direct", "push"} :
       \E mid \in (IF kind = "push" THEN publishedIds \cup {NextId}
                   ELSE {NoId}) :
       \E data \in (IF kind = "push" THEN PushData
                    ELSE {d \in PushData : d.parses}) :
          LET mw == pubsubMiddleware(kind, mid, data)
              d == IF mw.next THEN appPost(mw.name)
                   ELSE [push |-> FALSE, mark |-> FALSE,
                         response |-> mw.response]
              r == nreq + 1
              ids == IF d.mark /\ mw.messageId # NoId
                     THEN processedMessageIds \cup {mw.messageId}
                     ELSE processedMessageIds
              job == [fileName |-> mw.name, res |-> r,
                      messageId |-> mw.messageId]
              env == <<mid, data.name>>
              wellFormed == kind = "push" /\ data.parses /\ data.name # NoName
          IN  /\ nreq' = r
              /\ publishedIds' = IF kind = "push"
                                 THEN publishedIds \cup {mid}
                                 ELSE publishedIds
              /\ lastDelivery' =
                    [kind |-> kind, messageId |-> mid, data |-> data,
                     pushed |-> d.push, response |-> d.response,
                     afterAnswered |-> /\ wellFormed
                                       /\ env \in envelopes
                                       /\ env \notin pendingEnvelopes]
              /\ envelopes' = IF wellFormed THEN envelopes \cup {env}
                              ELSE envelopes
              /\ IF d.push
                 THEN /\ responses' = Append(responses, <<>>)
                      /\ envStatus' = envStatus
                      /\ processQueue(Append(processingQueue, job), ids)
                 ELSE /\ responses' = Append(responses, <<d.response.status>>)
                      /\ envStatus' =
                            IF wellFormed
                            THEN envStatus \cup
                                    {<<mid, data.name, d.response.status>>}
                            ELSE envStatus
                      /\ processedMessageIds' = ids
                      /\ UNCHANGED <<processingQueue, isProcessing, running,
                                     starts, provided, lastStarted>>
    /\ UNCHANGED <<calc, variant, processedFiles, failedFiles, timers, sinceDone,
                   lastDone>>

Post == Deliver(MaxDeliveries)

\* A setTimeout(processQueue, 12000) callback runs, at or after its delay.
TimerFires ==
    /\ Len(timers) > 0
    /\ Head(timers) = 0
    /\ timers' = Tail(timers)
    /\ processQueue(processingQueue, processedMessageIds)
    /\ UNCHANGED <<calc, variant, processedFiles, failedFiles, sinceDone, nreq,
                   lastDelivery, responses, envelopes, envStatus, lastDone,
                   publishedIds>>

\* storage.bucket(bucketName).file(fileName).exists() resolves true: the
\* annotation requests go out.
FileExists ==
    /\ \E j \in running :
          /\ j.pc = "exists"
          /\ running' = (running \ {j}) \cup {[j EXCEPT !.pc = "annotate"]}
          /\ provided' = [provided EXCEPT ![j.fileName] = @ + 1]
    /\ UNCHANGED <<calc, variant, processedFiles, failedFiles, processedMessageIds,
                   processingQueue, isProcessing, timers, sinceDone, nreq,
                   lastDelivery, responses, envelopes, envStatus, starts,
                   lastStarted, lastDone, publishedIds>>

\* exists() resolves false or rejects: processVideo throws "Failed to
\* access file" from outside its main try block; processQueue answers 500.
FileMissing ==
    /\ \E j \in running :
          /\ j.pc = "exists"
          /\ running' = running \ {j}
          /\ respond(j, 500)
          /\ lastDone' = [res |-> j.res, fileName |-> j.fileName, ok |-> FALSE]
    /\ processQueueFinally
    /\ UNCHANGED <<calc, variant, processedFiles, failedFiles, processedMessageIds,
                   processingQueue, nreq, lastDelivery, envelopes, starts,
                   provided, lastStarted, publishedIds>>

\* A success that also takes the file out of failedFiles.
VideoProcessedClearsFailed ==
    /\ \E j \in running :
          /\ j.pc = "annotate"
          /\ running' = running \ {j}
          /\ processedFiles' = processedFiles \cup {j.fileName}
          /\ failedFiles' = failedFiles \ {j.fileName}
          /\ processedMessageIds' =
                IF variant = "guarded" /\ j.messageId # NoId
                THEN processedMessageIds \cup {j.messageId}
                ELSE processedMessageIds
          /\ respond(j, 200)
          /\ lastDone' = [res |-> j.res, fileName |-> j.fileName, ok |-> TRUE]
    /\ processQueueFinally
    /\ UNCHANGED <<calc, variant, processingQueue, nreq, lastDelivery,
                   envelopes, starts, provided, lastStarted, publishedIds>>

\* The provider, the generative call and the stores all resolve:
\* processVideo returns, processQueue answers 200.
VideoProcessed ==
    /\ \E j \in running :
          /\ j.pc = "annotate"
          /\ running' = running \ {j}
          /\ processedFiles' = processedFiles \cup {j.fileName}
          /\ processedMessageIds' =
                IF variant = "guarded" /\ j.messageId # NoId
                THEN processedMessageIds \cup {j.messageId}
                ELSE processedMessageIds
          /\ respond(j, 200)
          /\ lastDone' = [res |-> j.res, fileName |-> j.fileName, ok |-> TRUE]
    /\ processQueueFinally
    /\ UNCHANGED <<calc, variant, failedFiles, processingQueue, nreq, lastDelivery,
                   envelopes, starts, provided, lastStarted, publishedIds>>

\* Something inside processVideo's main try block throws: the catch adds
\* the file to failedFiles and rethrows, processQueue answers 500.
VideoFailed ==
    /\ \E j \in running :
          /\ j.pc = "annotate"
          /\ running' = running \ {j}
          /\ failedFiles' = failedFiles \cup {j.fileName}
          /\ respond(j, 500)
          /\ lastDone' = [res |-> j.res, fileName |-> j.fileName, ok |-> FALSE]
    /\ processQueueFinally
    /\ UNCHANGED <<calc, variant, processedFiles, processedMessageIds,
                   processingQueue, nreq, lastDelivery, envelopes, starts,
                   provided, lastStarted, publishedIds>>

\* TickMs milliseconds pass.
Tick ==
    /\ \/ \E i \in 1..Len(timers) : timers[i] > 0
       \/ sinceDone \in 0..(MIN_DELAY_MS - 1)
    /\ timers' = [i \in 1..Len(timers) |-> Max(0, timers[i] - TickMs)]
    /\ sinceDone' = IF sinceDone = -1 THEN -1
                    ELSE Min(MIN_DELAY_MS, sinceDone + TickMs)
    /\ UNCHANGED <<calc, variant, processedFiles, failedFiles, processedMessageIds,
                   processingQueue, isProcessing, running, nreq, lastDelivery,
                   responses, envelopes, envStatus, starts, provided,
                   lastStarted, lastDone, publishedIds>>

Next ==
    \/ Post
    \/ TimerFires
    \/ FileExists
    \/ FileMissing
    \/ VideoProcessed
    \/ VideoFailed
    \/ Tick

Spec == Init /\ [][Next]_vars

\* The event loop keeps running: time passes, a due timer callback is run,
\* and every awaited promise (exists(), the provider and what follows it)
\* settles one way or the other.
PostLive == Deliver(MaxLiveDeliveries)

NextLive ==
    \/ PostLive
    \/ TimerFires
    \/ FileExists
    \/ FileMissing
    \/ VideoProcessed
    \/ VideoFailed
    \/ Tick

LiveSpec ==
    /\ Init
    /\ [][NextLive]_vars
    /\ WF_vars(Tick)
    /\ WF_vars(TimerFires)
    /\ WF_vars(FileExists \/ FileMissing)
    /\ WF_vars(VideoProcessed \/ VideoFailed)

\* ---------------------------------------------------------- a backlog ---
\* The service with a backlog: MAX_QUEUE_SIZE + 1 direct POSTs of distinct
\* videos have arrived and none has been answered, so the first runs and
\* the others wait in order of arrival.
backlogOrder ==
    <<backlogName("1"), mp4Name, movName, backlogName("2"), backlogName("3"),
      backlogName("4"), backlogName("5"), backlogName("6"), backlogName("7"),
      backlogName("8"), backlogName("9")>>

backlogJob(i) == [fileName |-> backlogOrder[i], res |-> i, messageId |-> NoId]

InitBacklog ==
    /\ variant \in Variants
    /\ processedFiles = {}
    /\ failedFiles = {}
    /\ processedMessageIds = {}
    /\ processingQueue = [i \in 1..MAX_QUEUE_SIZE |-> backlogJob(i + 1)]
    /\ isProcessing = TRUE
    /\ sinceDone = -1
    /\ running = {inFlight(backlogJob(1), 1)}
    /\ timers = <<>>
    /\ nreq = MAX_QUEUE_SIZE + 1
    /\ lastDelivery =
          [kind |-> "direct", messageId |-> NoId,
           data |-> [parses |-> TRUE, name |-> backlogOrder[MAX_QUEUE_SIZE + 1]],
           pushed |-> TRUE, afterAnswered |-> FALSE,
           response |-> Response(0, "")]
    /\ responses = [i \in 1..(MAX_QUEUE_SIZE + 1) |-> <<>>]
    /\ envelopes = {}
    /\ envStatus = {}
    /\ starts = [f \in AllNames |-> IF f = backlogOrder[1] THEN 1 ELSE 0]
    /\ provided = [f \in AllNames |->
                     IF f = backlogOrder[1] /\ variant = "guarded"
                     THEN 1 ELSE 0]
    /\ lastStarted = 1
    /\ lastDone = NoJob
    /\ publishedIds = {}
    /\ calc = NoCalc

PostBacklog == Deliver(MAX_QUEUE_SIZE + 1 + MaxBacklogDeliveries)

\* Only the first MaxBacklogCompletions jobs of the backlog are followed to
\* their end.
NextBacklog ==
    \/ PostBacklog
    \/ TimerFires
    \/ FileExists
    \/ (lastDone.res < MaxBacklogCompletions /\ FileMissing)
    \/ (lastDone.res < MaxBacklogCompletions /\ VideoProcessed)
    \/ (lastDone.res < MaxBacklogCompletions /\ VideoFailed)
    \/ Tick

SpecBacklog == InitBacklog /\ [][NextBacklog]_vars

\* ------------------------------------------------------- categorizers ---
\* utils/categorizers.js.  Descriptions are character sequences, so that
\* toLowerCase and includes are computed.

\* String.prototype.includes
includes(s, keyword) ==
    \E i \in 0..(Len(s) - Len(keyword)) :
        SubSeq(s, i + 1, i + Len(keyword)) = keyword

\* keywords.some((keyword) => s.includes(keyword))
some(keywords, s) ==
    \E k \in 1..Len(keywords) : includes(s, keywords[k])

KEYWORDS ==
    [
      FURNITURE |->
      << <<"c", "h", "a", "i", "r">>,
         <<"t", "a", "b", "l", "e">>,
         <<"s", "o", "f", "a">>,
         <<"c", "o", "u", "c", "h">>,
         <<"b", "e", "d">>,
         <<"d", "e", "s", "k">>,
         <<"c", "a", "b", "i", "n", "e", "t">>,
         <<"d", "r", "e", "s", "s", "e", "r">>,
         <<"w", "a", "r", "d", "r", "o", "b", "e">>,
         <<"b", "o", "o", "k", "s", "h", "e", "l", "f">> >>,
      APPLIANCES |->
      << <<"r", "e", "f", "r", "i", "g", "e", "r", "a", "t", "o", "r">>,
         <<"s", "t", "o", "v", "e">>,
         <<"o", "v", "e", "n">>,
         <<"d", "i", "s", "h", "w", "a", "s", "h", "e", "r">>,
         <<"w", "a", "s", "h", "e", "r">>,
         <<"d", "r", "y", "e", "r">>,
         <<"m", "i", "c", "r", "o", "w", "a", "v", "e">>,
         <<"a", "i", "r", " ", "c", "o", "n", "d", "i", "t", "i", "o", "n", "e", "r">> >>,
      FIXTURES |->
      << <<"s", "i", "n", "k">>,
         <<"t", "o", "i", "l", "e", "t">>,
         <<"b", "a", "t", "h", "t", "u", "b">>,
         <<"s", "h", "o", "w", "e", "r">>,
         <<"f", "a", "u", "c", "e", "t">>,
         <<"l", "i", "g", "h", "t">>,
         <<"f", "a", "n">>,
         <<"v", "e", "n", "t">> >>,
      ROOMS |->
      << <<"k", "i", "t", "c", "h", "e", "n">>,
         <<"b", "e", "d", "r", "o", "o", "m">>,
         <<"b", "a", "t", "h", "r", "o", "o", "m">>,
         <<"l", "i", "v", "i", "n", "g", " ", "r", "o", "o", "m">>,
         <<"d", "i", "n", "i", "n", "g", " ", "r", "o", "o", "m">>,
         <<"g", "a", "r", "a", "g", "e">>,
         <<"b", "a", "s", "e", "m", "e", "n", "t">> >>,
      STYLES |->
      << <<"m", "o", "d", "e", "r", "n">>,
         <<"t", "r", "a", "d", "i", "t", "i", "o", "n", "a", "l">>,
         <<"c", "o", "n", "t", "e", "m", "p", "o", "r", "a", "r", "y">>,
         <<"c", "l", "a", "s", "s", "i", "c">>,
         <<"m", "i", "n", "i", "m", "a", "l", "i", "s", "t">>,
         <<"r", "u", "s", "t", "i", "c">> >>,
      MATERIALS |->
      << <<"w", "o", "o", "d">>,
         <<"m", "a", "r", "b", "l", "e">>,
         <<"g", "r", "a", "n", "i", "t", "e">>,
         <<"s", "t", "a", "i", "n", "l", "e", "s", "s", " ", "s", "t", "e", "e", "l">>,
         <<"c", "e", "r", "a", "m", "i", "c">>,
         <<"g", "l", "a", "s", "s">>,
         <<"c", "o", "n", "c", "r", "e", "t", "e">> >>
    ]

featureWord == <<"f", "e", "a", "t", "u", "r", "e">>
designWord == <<"d", "e", "s", "i", "g", "n">>
dollarSign == <<"$">>
propertyWords ==
    << <<"b", "e", "d", "r", "o", "o", "m">>,
       <<"b", "a", "t", "h", "r", "o", "o", "m">>,
       <<"s", "q", "u", "a", "r", "e">>, <<"f", "o", "o", "t">>,
       <<"y", "e", "a", "r">>, <<"b", "u", "i", "l", "t">> >>
Digits == {"0", "1", "2", "3", "4", "5", "6", "7", "8", "9"}

\* /\d+/.test(s)
hasDigits(s) == \E i \in 1..Len(s) : s[i] \in Digits

\* Object.entries(objectSummary).forEach(...) from the entries still to
\* visit and the buckets filled so far.  An entry is [name, data]; the
\* pushed { name: object, ...data } is the entry itself.
RECURSIVE categorizeObjectsFrom(_, _)
categorizeObjectsFrom(entries, categorizedObjects) ==
    IF entries = <<>> THEN categorizedObjects
    ELSE LET entry == Head(entries)
             objectLower == toLowerCase(entry.name)
             pushed ==
                 IF some(KEYWORDS.FURNITURE, objectLower)
                 THEN [categorizedObjects EXCEPT !.furniture = Append(@, entry)]
                 ELSE IF some(KEYWORDS.APPLIANCES, objectLower)
                 THEN [categorizedObjects EXCEPT !.appliances = Append(@, entry)]
                 ELSE IF some(KEYWORDS.FIXTURES, objectLower)
                 THEN [categorizedObjects EXCEPT !.fixtures = Append(@, entry)]
                 ELSE [categorizedObjects EXCEPT !.other = Append(@, entry)]
         IN  categorizeObjectsFrom(Tail(entries), pushed)

categorizeObjects(objectSummary) ==
    categorizeObjectsFrom(objectSummary,
        [furniture |-> <<>>, appliances |-> <<>>, fixtures |-> <<>>,
         other |-> <<>>])

\* { name: label.description, confidence: label.confidence }
labelItem(label) ==
    [name |-> label.description, confidence |-> label.confidence]

\* categorizeLabels with independent `if`s in place of the else-if chain.
RECURSIVE categorizeLabelsNoElseFrom(_, _)
categorizeLabelsNoElseFrom(labels, categorizedLabels) ==
    IF labels = <<>> THEN categorizedLabels
    ELSE LET label == Head(labels)
             labelLower == toLowerCase(label.description)
             isRoom == some(KEYWORDS.ROOMS, labelLower)
             isStyle == some(KEYWORDS.STYLES, labelLower)
             isMaterial == some(KEYWORDS.MATERIALS, labelLower)
             isFeature == \/ includes(labelLower, featureWord)
                          \/ includes(labelLower, designWord)
             put(seq, yes) == IF yes THEN Append(seq, labelItem(label)) ELSE seq
             pushed ==
                 [rooms |-> put(categorizedLabels.rooms, isRoom),
                  styles |-> put(categorizedLabels.styles, isStyle),
                  materials |-> put(categorizedLabels.materials, isMaterial),
                  features |-> put(categorizedLabels.features, isFeature),
                  other |-> put(categorizedLabels.other,
                                ~(isRoom \/ isStyle \/ isMaterial \/ isFeature))]
         IN  categorizeLabelsNoElseFrom(Tail(labels), pushed)

categorizeLabelsNoElse(detectedLabels) ==
    categorizeLabelsNoElseFrom(detectedLabels,
        [rooms |-> <<>>, styles |-> <<>>, materials |-> <<>>,
         features |-> <<>>, other |-> <<>>])

\* detectedLabels.forEach(...)
RECURSIVE categorizeLabelsFrom(_, _)
categorizeLabelsFrom(labels, categorizedLabels) ==
    IF labels = <<>> THEN categorizedLabels
    ELSE LET label == Head(labels)
             labelLower == toLowerCase(label.description)
             pushed ==
                 IF some(KEYWORDS.ROOMS, labelLower)
                 THEN [categorizedLabels EXCEPT
                          !.rooms = Append(@, labelItem(label))]
                 ELSE IF some(KEYWORDS.STYLES, labelLower)
                 THEN [categorizedLabels EXCEPT
                          !.styles = Append(@, labelItem(label))]
                 ELSE IF some(KEYWORDS.MATERIALS, labelLower)
                 THEN [categorizedLabels EXCEPT
                          !.materials = Append(@, labelItem(label))]
                 ELSE IF \/ includes(labelLower, featureWord)
                         \/ includes(labelLower, designWord)
                 THEN [categorizedLabels EXCEPT
                          !.features = Append(@, labelItem(label))]
                 ELSE [categorizedLabels EXCEPT
                          !.other = Append(@, labelItem(label))]
         IN  categorizeLabelsFrom(Tail(labels), pushed)

categorizeLabels(detectedLabels) ==
    categorizeLabelsFrom(detectedLabels,
        [rooms |-> <<>>, styles |-> <<>>, materials |-> <<>>,
         features |-> <<>>, other |-> <<>>])

\* categorizeText with the property-detail test before the price test.
RECURSIVE categorizeTextDetailsFirstFrom(_, _)
categorizeTextDetailsFirstFrom(texts, categorizedText) ==
    IF texts = <<>> THEN categorizedText
    ELSE LET text == Head(texts)
             textLower == toLowerCase(text.text)
             pushed ==
                 IF some(propertyWords, textLower)
                 THEN [categorizedText EXCEPT
                          !.propertyDetails = Append(@, text)]
                 ELSE IF includes(textLower, dollarSign)
                         \/ hasDigits(text.text)
                 THEN [categorizedText EXCEPT !.prices = Append(@, text)]
                 ELSE [categorizedText EXCEPT !.other = Append(@, text)]
         IN  categorizeTextDetailsFirstFrom(Tail(texts), pushed)

categorizeTextDetailsFirst(detectedText) ==
    categorizeTextDetailsFirstFrom(detectedText,
        [propertyDetails |-> <<>>, prices |-> <<>>, other |-> <<>>])

\* detectedText.forEach(...); the pushed { text, confidence } is the
\* detection itself.
RECURSIVE categorizeTextFrom(_, _)
categorizeTextFrom(texts, categorizedText) ==
    IF texts = <<>> THEN categorizedText
    ELSE LET text == Head(texts)
             textLower == toLowerCase(text.text)
             pushed ==
                 IF includes(textLower, dollarSign) \/ hasDigits(text.text)
                 THEN [categorizedText EXCEPT !.prices = Append(@, text)]
                 ELSE IF some(propertyWords, textLower)
                 THEN [categorizedText EXCEPT
                          !.propertyDetails = Append(@, text)]
                 ELSE [categorizedText EXCEPT !.other = Append(@, text)]
         IN  categorizeTextFrom(Tail(texts), pushed)

categorizeText(detectedText) ==
    categorizeTextFrom(detectedText,
        [propertyDetails |-> <<>>, prices |-> <<>>, other |-> <<>>])

\* Calls of the categorizers on every input of up to MaxEntities entities.
ObjectNames ==
    { <<"C", "h", "a", "i", "r">>,
      <<"O", "v", "e", "n", " ", "l", "i", "g", "h", "t">>,
      <<"B", "e", "d", " ", "l", "i", "g", "h", "t">>,
      <<"F", "a", "n">>, <<"l", "a", "m", "p">> }

LabelDescriptions ==
    { <<"K", "i", "t", "c", "h", "e", "n", " ", "i", "s", "l", "a", "n", "d">>,
      <<"M", "o", "d", "e", "r", "n", " ", "k", "i", "t", "c", "h", "e", "n">>,
      <<"W", "o", "o", "d", " ", "d", "e", "s", "i", "g", "n">>,
      <<"C", "l", "a", "s", "s", "i", "c">>, <<"s", "k", "y">> }

TextStrings ==
    { <<"$", "5">>, <<"3", " ", "b", "e", "d", "r", "o", "o", "m">>,
      <<"B", "e", "d", "r", "o", "o", "m">>,
      <<"€", " ", "p", "e", "r", " ", "y", "e", "a", "r">>,
      <<"h", "e", "l", "l", "o">> }

SeqsUpTo(S, n) == UNION {[1..k -> S] : k \in 0..n}

\* Object.entries of an object: its keys are distinct.
ObjectSummaries ==
    {e \in SeqsUpTo({[name |-> n, data |-> 1] : n \in ObjectNames},
                     MaxEntities) :
        \A i, k \in 1..Len(e) : e[i].name = e[k].name => i = k}

DetectedLabels ==
    SeqsUpTo({[description |-> d, confidence |-> c] :
                 d \in LabelDescriptions, c \in {50, 90}}, MaxEntities)

DetectedTexts ==
    SeqsUpTo({[text |-> t, confidence |-> 90] : t \in TextStrings},
             MaxEntities)

Call(fn, input) == [fn |-> fn, input |-> input, done |-> FALSE, output |-> <<>>]

Return(output) == [calc EXCEPT !.done = TRUE, !.output = output]

InitCategorize ==
    /\ QueueInit
    /\ calc \in {Call("categorizeObjects", in) : in \in ObjectSummaries}
              \cup {Call("categorizeLabels", in) : in \in DetectedLabels}
              \cup {Call("categorizeText", in) : in \in DetectedTexts}

CategorizeObjects ==
    /\ calc.fn = "categorizeObjects"
    /\ ~calc.done
    /\ calc' = Return(categorizeObjects(calc.input))
    /\ UNCHANGED queueVars

CategorizeLabels ==
    /\ calc.fn = "categorizeLabels"
    /\ ~calc.done
    /\ calc' = Return(categorizeLabels(calc.input))
    /\ UNCHANGED queueVars

CategorizeText ==
    /\ calc.fn = "categorizeText"
    /\ ~calc.done
    /\ calc' = Return(categorizeText(calc.input))
    /\ UNCHANGED queueVars

NextCategorize ==
    \/ CategorizeObjects
    \/ CategorizeLabels
    \/ CategorizeText

SpecCategorize == InitCategorize /\ [][NextCategorize]_vars

\* -------------------------------------------------- optimizeVideoData ---
\* The object aggregate of optimizeVideoData, unnamed/part_001 103-176.
\* Confidences are in hundredths and timestamps in whole seconds; a
\* quotient a / b is kept as the fraction [num |-> a, den |-> b].
Fraction(a, b) == [num |-> a, den |-> b]

\* p > q for fractions
Greater(p, q) ==
    IF (p.den > 0) = (q.den > 0)
    THEN p.num * q.den > q.num * p.den
    ELSE p.num * q.den < q.num * p.den

\* array.sort((a, b) => a - b)
RECURSIVE sortAscending(_)
sortAscending(seq) ==
    IF seq = <<>> THEN <<>>
    ELSE LET least == CHOOSE i \in 1..Len(seq) :
                          \A k \in 1..Len(seq) : seq[i] <= seq[k]
         IN  <<seq[least]>> \o
             sortAscending(SubSeq(seq, 1, least - 1)
                           \o SubSeq(seq, least + 1, Len(seq)))

\* acc[key] = { count: 0, confidence: 0, ... } for a first detection obj
newEntity(obj) ==
    [count |-> 0, confidence |-> 0, occurrences |-> <<>>, timestamps |-> <<>>,
     firstSeen |-> obj.timestamp, lastSeen |-> obj.timestamp,
     averageConfidence |-> Fraction(0, 1),
     maxConfidence |-> obj.confidence, minConfidence |-> obj.confidence,
     timeSpan |-> 0, frequency |-> Fraction(0, 1), context |-> <<>>]

\* The reducer with the first detection's confidence already put into the
\* new entity, and then added again.
reducerDoubleFirst(acc, obj) ==
    LET key == toLowerCase(obj.description)
        entity == IF key \in DOMAIN acc THEN acc[key]
                  ELSE [newEntity(obj) EXCEPT !.confidence = obj.confidence]
        folded ==
            [entity EXCEPT
                !.occurrences = Append(@, [timestamp |-> obj.timestamp,
                                           confidence |-> obj.confidence]),
                !.count = @ + 1,
                !.confidence = @ + obj.confidence,
                !.timestamps = Append(@, obj.timestamp),
                !.lastSeen = obj.timestamp,
                !.maxConfidence = Max(@, obj.confidence),
                !.minConfidence = Min(@, obj.confidence)]
    IN  IF key = <<>> THEN acc
        ELSE [k \in DOMAIN acc \cup {key} |->
                 IF k = key THEN folded ELSE acc[k]]

\* The callback of objects.reduce((acc, obj) => ..., {}).
reducer(acc, obj) ==
    LET key == toLowerCase(obj.description)
        entity == IF key \in DOMAIN acc THEN acc[key] ELSE newEntity(obj)
        folded ==
            [entity EXCEPT
                !.occurrences = Append(@, [timestamp |-> obj.timestamp,
                                           confidence |-> obj.confidence]),
                !.count = @ + 1,
                !.confidence = @ + obj.confidence,
                !.timestamps = Append(@, obj.timestamp),
                !.lastSeen = obj.timestamp,
                !.maxConfidence = Max(@, obj.confidence),
                !.minConfidence = Min(@, obj.confidence)]
    IN  IF key = <<>> THEN acc
        ELSE [k \in DOMAIN acc \cup {key} |->
                 IF k = key THEN folded ELSE acc[k]]

RECURSIVE reduce(_, _)
reduce(objects, acc) ==
    IF objects = <<>> THEN acc
    ELSE reduce(Tail(objects), reducer(acc, Head(objects)))

\* The statistics computed for one entity of the aggregate.
statistics(entity) ==
    IF entity.count > 0
    THEN LET averageConfidence == Fraction(entity.confidence, entity.count)
             timeSpan == entity.lastSeen - entity.firstSeen
             frequency == Fraction(entity.count,
                                   IF timeSpan = 0 THEN 1 ELSE timeSpan)
             frequent == IF Greater(frequency, Fraction(1, 2))
                         THEN <<"Frequently visible">> ELSE <<>>
             long == IF timeSpan > 10
                     THEN <<"Long duration presence">> ELSE <<>>
             confident == IF Greater(averageConfidence, Fraction(70, 1))
                          THEN <<"High confidence detection">> ELSE <<>>
         IN  [entity EXCEPT
                 !.averageConfidence = averageConfidence,
                 !.timestamps = sortAscending(@),
                 !.timeSpan = timeSpan,
                 !.frequency = frequency,
                 !.context = frequent \o long \o confident]
    ELSE entity

processedObjects(objects) ==
    LET acc == reduce(objects, <<>>)
    IN  [key \in DOMAIN acc |-> statistics(acc[key])]

\* Calls on every sequence of up to MaxDetections detections.
Descriptions ==
    { <<"L", "a", "m", "p">>, <<"l", "a", "m", "p">>,
      <<"s", "o", "f", "a">>, <<>> }

Detections ==
    {[description |-> d, confidence |-> c, timestamp |-> t] :
        d \in Descriptions, c \in {50, 90}, t \in {1, 2}}

ProcessObjects ==
    /\ calc.fn = "processedObjects"
    /\ ~calc.done
    /\ calc' = Return(processedObjects(calc.input))
    /\ UNCHANGED queueVars

\* ------------------------------------------------ Number arithmetic ---
\* A JavaScript Number is an IEEE-754 binary64.  The confidences handled here
\* are 0 or lie in [1/16, 8), where every binary64 is a multiple of 2^-56: a
\* Number x is kept as the integer x * 2^56, written as three limbs of LimbBits
\* bits, the most significant first.
LimbBits == 20

LimbBase == 2 ^ LimbBits

\* The binary64 nearest to the decimal literal h/100.
binary64(h) ==
    CASE h = 0  -> <<0, 0, 0>>
      [] h = 50 -> <<32768, 0, 0>>
      [] h = 69 -> <<45219, 880803, 880800>>
      [] h = 70 -> <<45875, 209715, 209712>>
      [] h = 71 -> <<46530, 587202, 587200>>
      [] h = 90 -> <<58982, 419430, 419432>>

\* Exact integer operations on limbs; n is a small positive integer.
addLimbs(x, y) ==
    LET s3 == x[3] + y[3]
        s2 == x[2] + y[2] + (s3 \div LimbBase)
        s1 == x[1] + y[1] + (s2 \div LimbBase)
    IN  <<s1, s2 % LimbBase, s3 % LimbBase>>

mulLimbs(x, n) ==
    LET p3 == x[3] * n
        p2 == x[2] * n + (p3 \div LimbBase)
        p1 == x[1] * n + (p2 \div LimbBase)
    IN  <<p1, p2 % LimbBase, p3 % LimbBase>>

divLimbs(x, n) ==
    LET t2 == (x[1] % n) * LimbBase + x[2]
        t3 == (t2 % n) * LimbBase + x[3]
    IN  [q |-> <<x[1] \div n, t2 \div n, t3 \div n>>, r |-> t3 % n]

lessThan(x, y) ==
    \/ x[1] < y[1]
    \/ x[1] = y[1] /\ x[2] < y[2]
    \/ x[1] = y[1] /\ x[2] = y[2] /\ x[3] < y[3]

\* The spacing of the binary64 values around x is 2^ulpShift(x) * 2^-56: 53
\* significant bits, so one more bit of spacing for each binade above 2^-4.
ulpShift(x) == Cardinality({k \in 13..18 : x[1] >= 2 ^ k})

\* units / 2^shift rounded to the nearest integer, ties to the even one, where
\* the exact value is q + (something in [0, 1)) and "position" tells where
\* that something lies with respect to one half.
roundHalfEven(q, position, shift) ==
    LET up == \/ position = "above"
              \/ position = "half" /\ q[3] % 2 = 1
    IN  mulLimbs(IF up THEN addLimbs(q, <<0, 0, 1>>) ELSE q, 2 ^ shift)

\* x + y of two Numbers: the exact sum, rounded to 53 significant bits.
plus(x, y) ==
    LET exact == addLimbs(x, y)
        shift == ulpShift(exact)
        d == divLimbs(exact, 2 ^ shift)
        position == IF 2 * d.r > 2 ^ shift THEN "above"
                    ELSE IF 2 * d.r = 2 ^ shift THEN "half"
                    ELSE "below"
    IN  roundHalfEven(d.q, position, shift)

\* x / n of a Number by a count: the exact quotient, rounded to 53
\* significant bits.  With x = (a.q * 2^shift + a.r) and a.q = b.q * n + b.r,
\* the quotient in units of 2^shift is b.q + (b.r * 2^shift + a.r) / (n *
\* 2^shift), and the fraction is compared with one half.
dividedBy(x, n) ==
    LET shift == ulpShift(divLimbs(x, n).q)
        a == divLimbs(x, 2 ^ shift)
        b == divLimbs(a.q, n)
        d == n - 2 * b.r
        position ==
            IF d <= 0
            THEN (IF d = 0 /\ a.r = 0 THEN "half" ELSE "above")
            ELSE IF d >= 2 THEN "below"
            ELSE IF 2 * a.r > 2 ^ shift THEN "above"
            ELSE IF 2 * a.r = 2 ^ shift THEN "half"
            ELSE "below"
    IN  roundHalfEven(b.q, position, shift)

\* ------------------------------------------- thresholded aggregation ---
\* optimizeVideoData of the analysis service with the confidence threshold
\* and the frame interval (constants.js 625-668).  Timestamps are seconds
\* with one decimal, kept in tenths.
CONFIDENCE_THRESHOLD == binary64(70)

FRAME_INTERVAL_SECONDS == 1

TenthsPerSecond == 10

\* The callback with the timestamp pushed for every detection, on the frame
\* interval or not.
optimizedReducerPushesAll(acc, obj) ==
    LET key == toLowerCase(obj.description)
        entity == IF key \in DOMAIN acc THEN acc[key]
                  ELSE [count |-> 0, confidence |-> binary64(0),
                        occurrences |-> <<>>]
        pushed == [entity EXCEPT !.occurrences = Append(@, obj.timestamp)]
        folded ==
            IF obj.timestamp % (FRAME_INTERVAL_SECONDS * TenthsPerSecond) = 0
            THEN [pushed EXCEPT
                     !.count = @ + 1,
                     !.confidence = plus(@, obj.confidence)]
            ELSE pushed
    IN  IF key = <<>> THEN acc
        ELSE [k \in DOMAIN acc \cup {key} |->
                 IF k = key THEN folded ELSE acc[k]]

\* The callback of objects.reduce((acc, obj) => ..., {}) at 637-657.
optimizedReducer(acc, obj) ==
    LET key == toLowerCase(obj.description)
        entity == IF key \in DOMAIN acc THEN acc[key]
                  ELSE [count |-> 0, confidence |-> binary64(0),
                        occurrences |-> <<>>]
        folded ==
            IF obj.timestamp % (FRAME_INTERVAL_SECONDS * TenthsPerSecond) = 0
            THEN [entity EXCEPT
                     !.count = @ + 1,
                     !.confidence = plus(@, obj.confidence),
                     !.occurrences = Append(@, obj.timestamp)]
            ELSE entity
    IN  IF key = <<>> THEN acc
        ELSE [k \in DOMAIN acc \cup {key} |->
                 IF k = key THEN folded ELSE acc[k]]

RECURSIVE optimizedReduce(_, _)
optimizedReduce(objects, acc) ==
    IF objects = <<>> THEN acc
    ELSE optimizedReduce(Tail(objects), optimizedReducer(acc, Head(objects)))

\* optimizedObjects[key].confidence < CONFIDENCE_THRESHOLD
belowThreshold(confidence) == lessThan(confidence, CONFIDENCE_THRESHOLD)

\* The aggregate after Object.keys(optimizedObjects).forEach at 659-668: the
\* sum becomes the average, and an entity below the threshold is deleted.
optimizedObjects(objects) ==
    LET acc == optimizedReduce(objects, <<>>)
        averaged ==
            [key \in DOMAIN acc |->
                IF acc[key].count > 0
                THEN [acc[key] EXCEPT
                         !.confidence = dividedBy(@, acc[key].count)]
                ELSE acc[key]]
        deleted == {key \in DOMAIN acc :
                       /\ acc[key].count > 0
                       /\ belowThreshold(averaged[key].confidence)}
    IN  [key \in DOMAIN acc \ deleted |-> averaged[key]]

\* Calls on every sequence of up to MaxDetections detections around the
\* threshold, on and off the frame interval.
ConfidenceLiterals == {50, 69, 70, 90}

SampledDetections ==
    {[description |-> d, confidence |-> binary64(c), timestamp |-> t] :
        d \in {<<"L", "a", "m", "p">>, <<"s", "o", "f", "a">>},
        c \in ConfidenceLiterals, t \in {10, 15}}

\* Calls on detections whose descriptions carry blanks: obj.description is
\* whatever string the provider sent.
SpacedDescriptions ==
    { <<"l", "a", "m", "p">>, <<"L", "a", "m", "p", " ">>,
      <<" ", "l", "a", "m", "p">>, <<" ">> }

SpacedDetections ==
    {[description |-> d, confidence |-> 90, timestamp |-> 1] :
        d \in SpacedDescriptions}

SpacedSampledDetections ==
    {[description |-> d, confidence |-> binary64(90), timestamp |-> 10] :
        d \in SpacedDescriptions}

InitAggregate ==
    /\ QueueInit
    /\ \/ calc \in {Call("processedObjects", in) :
                        in \in SeqsUpTo(Detections, MaxDetections)}
       \/ calc \in {Call("optimizedObjects", in) :
                        in \in SeqsUpTo(SampledDetections, MaxDetections)}
       \/ calc \in {Call("processedObjects", in) :
                        in \in SeqsUpTo(SpacedDetections, MaxDetections)}
       \/ calc \in {Call("optimizedObjects", in) :
                        in \in SeqsUpTo(SpacedSampledDetections,
                                        MaxDetections)}

OptimizeObjects ==
    /\ calc.fn = "optimizedObjects"
    /\ ~calc.done
    /\ calc' = Return(optimizedObjects(calc.input))
    /\ UNCHANGED queueVars

NextAggregate == ProcessObjects \/ OptimizeObjects

SpecAggregate == InitAggregate /\ [][NextAggregate]_vars

\* ------------------------------------------------------ text windows ---
\* The text part of optimizeVideoData (part_001 194-252): detections are
\* grouped by five-second window and each group is merged into one record.
\* Texts are tuples of characters, confidences hundredths, timestamps whole
\* seconds.
MaxTexts == 3

\* String.prototype.trim
RECURSIVE trimStart(_)
trimStart(str) ==
    IF str # <<>> /\ Head(str) = " " THEN trimStart(Tail(str)) ELSE str

RECURSIVE trimEnd(_)
trimEnd(str) ==
    IF str # <<>> /\ str[Len(str)] = " "
    THEN trimEnd(SubSeq(str, 1, Len(str) - 1))
    ELSE str

trim(str) == trimEnd(trimStart(str))

timeWindow == 5

\* text.map((text) => ({...})) at 195-206
processedText(text) ==
    [i \in 1..Len(text) |->
        [text |-> text[i].text, confidence |-> text[i].confidence,
         timestamp |-> text[i].timestamp, originalText |-> text[i].text,
         context |-> [confidence |-> text[i].confidence,
                      timestamp |-> text[i].timestamp,
                      duration |-> 1, frequency |-> 1]]]

\* The callback of processedText.reduce((acc, text) => ..., {}) at 209-219.
groupedTextReducer(acc, text) ==
    LET key == text.timestamp \div timeWindow
    IN  [k \in DOMAIN acc \cup {key} |->
            IF k = key
            THEN Append(IF key \in DOMAIN acc THEN acc[key] ELSE <<>>, text)
            ELSE acc[k]]

RECURSIVE groupedText(_, _)
groupedText(texts, acc) ==
    IF texts = <<>> THEN acc
    ELSE groupedText(Tail(texts), groupedTextReducer(acc, Head(texts)))

\* The inner callback with the confidence of the latest member kept.
combineReducerLatest(acc, text) ==
    [text |-> acc.text \o <<" ">> \o text.text,
     confidence |-> text.confidence,
     timestamps |-> Append(acc.timestamps, text.timestamp)]

\* The callback of texts.reduce((acc, text) => ..., {text: "", ...}) at
\* 223-235.
combineReducer(acc, text) ==
    [text |-> acc.text \o <<" ">> \o text.text,
     confidence |-> Max(acc.confidence, text.confidence),
     timestamps |-> Append(acc.timestamps, text.timestamp)]

RECURSIVE combine(_, _)
combine(texts, acc) ==
    IF texts = <<>> THEN acc
    ELSE combine(Tail(texts), combineReducer(acc, Head(texts)))

\* Math.min(...timestamps) and Math.max(...timestamps)
MathMin(timestamps) ==
    CHOOSE t \in Range(timestamps) : \A u \in Range(timestamps) : t <= u

MathMax(timestamps) ==
    CHOOSE t \in Range(timestamps) : \A u \in Range(timestamps) : t >= u

\* The record built for one window at 237-251.
merged(texts) ==
    LET combined == combine(texts, [text |-> <<>>, confidence |-> 0,
                                    timestamps |-> <<>>])
    IN  [text |-> trim(combined.text),
         confidence |-> combined.confidence,
         timestamp |-> MathMin(combined.timestamps),
         originalTexts |-> texts,
         context |->
             [duration |-> MathMax(combined.timestamps)
                              - MathMin(combined.timestamps),
              frequency |-> Len(texts),
              timeRange |-> <<MathMin(combined.timestamps),
                              MathMax(combined.timestamps)>>]]

\* Object.values of an object with integer keys: in ascending key order.
RECURSIVE ObjectValues(_)
ObjectValues(obj) ==
    IF DOMAIN obj = {} THEN <<>>
    ELSE LET least == CHOOSE k \in DOMAIN obj : \A m \in DOMAIN obj : k <= m
         IN  <<obj[least]>>
             \o ObjectValues([k \in DOMAIN obj \ {least} |-> obj[k]])

combinedText(text) ==
    LET groups == ObjectValues(groupedText(processedText(text), <<>>))
    IN  [i \in 1..Len(groups) |-> merged(groups[i])]

\* Calls on every sequence of up to MaxTexts text detections in two windows,
\* among them one without text.
TextDetections ==
    {[text |-> t, confidence |-> c, timestamp |-> s] :
        t \in {<<"a">>, <<"b", "c">>, <<>>}, c \in {50, 90}, s \in {0, 4, 6}}

InitText ==
    /\ QueueInit
    /\ calc \in {Call("combinedText", in) :
                    in \in SeqsUpTo(TextDetections, MaxTexts)}

CombineText ==
    /\ calc.fn = "combinedText"
    /\ ~calc.done
    /\ calc' = Return(combinedText(calc.input))
    /\ UNCHANGED queueVars

NextText == CombineText

SpecText == InitText /\ [][NextText]_vars

\* ------------------------------------------------- FirestoreService ---
\* The persistence service (services/firestoreService.js): the constructor
\* starts initializeFirestore() without waiting for it, and the two store
\* methods retry the initialization, fall back to a logged identifier, or
\* write the document.  Every await on the backing store is one step, which
\* succeeds when the store is reachable at that moment.  The service and the
\* call in progress are kept in calc.
MaxStoreChanges == 2

MaxStoreCalls == 2

NoCall ==
    [method |-> "none", fileName |-> NoName, valid |-> FALSE,
     serializable |-> FALSE, pc |-> "idle", id |-> [kind |-> "none"]]

StoreFileNames == {mp4Name, NoName}

FirestoreIds ==
    {[kind |-> k, fileName |-> mp4Name] : k \in {"document", "fallback"}}
    \cup {[kind |-> "none"]}

InitStore ==
    /\ QueueInit
    /\ calc \in {[fn |-> "FirestoreService", isInitialized |-> FALSE,
                  reachable |-> r, changes |-> 0, startup |-> "set",
                  call |-> NoCall, calls |-> 0] : r \in BOOLEAN}

Service == calc.fn = "FirestoreService"

\* The backing store becomes unreachable, or reachable again.
StoreChanges ==
    /\ Service
    /\ calc.changes < MaxStoreChanges
    /\ calc' = [calc EXCEPT !.reachable = ~@, !.changes = @ + 1]
    /\ UNCHANGED queueVars

\* initializeFirestore() started by the constructor: await dummyDoc.set(...)
StartupSet ==
    /\ Service
    /\ calc.startup = "set"
    /\ calc' = [calc EXCEPT
                   !.startup = IF calc.reachable THEN "delete" ELSE "end"]
    /\ UNCHANGED queueVars

\* ... await dummyDoc.delete(); this.isInitialized = true
StartupDelete ==
    /\ Service
    /\ calc.startup = "delete"
    /\ calc' = [calc EXCEPT
                   !.startup = "end",
                   !.isInitialized = @ \/ calc.reachable]
    /\ UNCHANGED queueVars

\* storeFallback(fileName, analysisResults): the identifier it returns.
storeFallback(fileName, serializable) ==
    [kind |-> IF serializable THEN "fallback" ELSE "error",
     fileName |-> fileName]

\* The synchronous start of either store method, up to its first await.
begin(method, fileName, valid, serializable) ==
    [method |-> method, fileName |-> fileName, valid |-> valid,
     serializable |-> serializable,
     pc |-> IF ~valid THEN "thrown"
            ELSE IF ~calc.isInitialized THEN "initSet"
            ELSE "set",
     id |-> [kind |-> "none"]]

StoreVideoAnalysis ==
    /\ Service
    /\ calc.call.pc \in {"idle", "returned", "thrown"}
    /\ calc.calls < MaxStoreCalls
    /\ \E fileName \in StoreFileNames, analysisResults \in BOOLEAN,
          serializable \in BOOLEAN :
          calc' = [calc EXCEPT
                      !.calls = @ + 1,
                      !.call = begin("storeVideoAnalysis", fileName,
                                     fileName # NoName /\ analysisResults,
                                     serializable)]
    /\ UNCHANGED queueVars

StoreProcessedAnalysis ==
    /\ Service
    /\ calc.call.pc \in {"idle", "returned", "thrown"}
    /\ calc.calls < MaxStoreCalls
    /\ \E fileName \in StoreFileNames, firestoreId \in FirestoreIds,
          propertyDetails \in BOOLEAN, serializable \in BOOLEAN :
          calc' = [calc EXCEPT
                      !.calls = @ + 1,
                      !.call = begin("storeProcessedAnalysis", fileName,
                                     /\ fileName # NoName
                                     /\ firestoreId.kind # "none"
                                     /\ propertyDetails,
                                     serializable)]
    /\ UNCHANGED queueVars

\* After await this.initializeFirestore(): if (!this.isInitialized) return
\* this.storeFallback(...), otherwise on to docRef.set.
afterInitialize(call, isInitialized) ==
    IF isInitialized
    THEN [call EXCEPT !.pc = "set"]
    ELSE [call EXCEPT !.pc = "returned",
                      !.id = storeFallback(call.fileName, call.serializable)]

\* The retried initializeFirestore(): await dummyDoc.set(...)
RetrySet ==
    /\ Service
    /\ calc.call.pc = "initSet"
    /\ calc' = [calc EXCEPT
                   !.call = IF calc.reachable
                            THEN [@ EXCEPT !.pc = "initDelete"]
                            ELSE afterInitialize(@, calc.isInitialized)]
    /\ UNCHANGED queueVars

\* ... await dummyDoc.delete(); this.isInitialized = true
RetryDelete ==
    /\ Service
    /\ calc.call.pc = "initDelete"
    /\ LET isInitialized == calc.isInitialized \/ calc.reachable
       IN  calc' = [calc EXCEPT
                       !.isInitialized = isInitialized,
                       !.call = afterInitialize(@, isInitialized)]
    /\ UNCHANGED queueVars

\* await docRef.set(..., { merge: true }); return docRef.id, or the catch
\* block that logs and rethrows.
DocumentSet ==
    /\ Service
    /\ calc.call.pc = "set"
    /\ calc' = [calc EXCEPT
                   !.call = IF calc.reachable
                            THEN [@ EXCEPT
                                     !.pc = "returned",
                                     !.id = [kind |-> "document",
                                             fileName |-> calc.call.fileName]]
                            ELSE [@ EXCEPT !.pc = "thrown"]]
    /\ UNCHANGED queueVars

NextStore ==
    \/ StoreChanges
    \/ StartupSet
    \/ StartupDelete
    \/ StoreVideoAnalysis
    \/ StoreProcessedAnalysis
    \/ RetrySet
    \/ RetryDelete
    \/ DocumentSet

SpecStore == InitStore /\ [][NextStore]_vars

\* --------------------------------------------------- label reduction ---
\* The label part of optimizeVideoData in the analysis service
\* (constants.js 670-698).  Confidences are binary64 Numbers, timestamps
\* seconds with one decimal, kept in tenths.
MaxLabels == 3
MaxExtraLabels == 1

MAX_LABELS_PER_SEGMENT == 5

\* (label.confidence || 0) >= CONFIDENCE_THRESHOLD
atLeastThreshold(confidence) == ~lessThan(confidence, CONFIDENCE_THRESHOLD)

\* The callback of .reduce((acc, label) => ..., {}) at 678-693.
labelReducer(acc, label) ==
    IF label.timestamp = 0 THEN acc
    ELSE LET segmentKey ==
                 label.timestamp \div (FRAME_INTERVAL_SECONDS * TenthsPerSecond)
             segment == IF segmentKey \in DOMAIN acc THEN acc[segmentKey]
                        ELSE <<>>
             pushed ==
                 IF Len(segment) < MAX_LABELS_PER_SEGMENT
                 THEN Append(segment,
                             [description |-> label.description,
                              confidence |-> label.confidence,
                              timestamp |-> label.timestamp])
                 ELSE segment
         IN  [k \in DOMAIN acc \cup {segmentKey} |->
                 IF k = segmentKey THEN pushed ELSE acc[k]]

RECURSIVE labelReduce(_, _)
labelReduce(labels, acc) ==
    IF labels = <<>> THEN acc
    ELSE labelReduce(Tail(labels), labelReducer(acc, Head(labels)))

\* labels.filter(...).reduce(...): a label is an object the service built
\* itself, so only the confidence test of the filter can fail.
optimizedLabels(labels) ==
    labelReduce(SelectSeq(labels,
                    LAMBDA label : atLeastThreshold(label.confidence)),
                <<>>)

\* Array.prototype.flat on an array of arrays
RECURSIVE flat(_)
flat(arrays) ==
    IF arrays = <<>> THEN <<>> ELSE Head(arrays) \o flat(Tail(arrays))

\* One label put into an array already in non-increasing confidence order,
\* behind the labels that compare equal to it: Array.prototype.sort is
\* stable, and (b.confidence || 0) - (a.confidence || 0) is positive
\* exactly when a.confidence < b.confidence.
RECURSIVE insertLabel(_, _)
insertLabel(sorted, label) ==
    IF sorted = <<>> THEN <<label>>
    ELSE IF lessThan(Head(sorted).confidence, label.confidence)
    THEN <<label>> \o sorted
    ELSE <<Head(sorted)>> \o insertLabel(Tail(sorted), label)

RECURSIVE sortDescending(_, _)
sortDescending(labels, sorted) ==
    IF labels = <<>> THEN sorted
    ELSE sortDescending(Tail(labels), insertLabel(sorted, Head(labels)))

\* Object.values(optimizedLabels).flat().sort(...)
flattenedLabels(labels) ==
    sortDescending(flat(ObjectValues(optimizedLabels(labels))), <<>>)

\* Calls on every sequence of up to MaxLabels labels around the threshold,
\* at the start of the video and in two later segments, and on the crowded
\* sequences: MAX_LABELS_PER_SEGMENT labels and up to MaxExtraLabels more,
\* all above the threshold, in one segment or two.
LabelDetections ==
    {[description |-> <<"s", "k", "y">>, confidence |-> binary64(c),
      timestamp |-> t] :
        c \in {69, 70, 90}, t \in {0, 10, 15, 20}}

CrowdedLabels ==
    UNION {[1..n -> {label \in LabelDetections :
                        /\ atLeastThreshold(label.confidence)
                        /\ label.timestamp \in {10, 20}}] :
              n \in MAX_LABELS_PER_SEGMENT
                    ..(MAX_LABELS_PER_SEGMENT + MaxExtraLabels)}

InitLabels ==
    /\ QueueInit
    /\ \/ calc \in {Call("flattenedLabels", in) :
                        in \in SeqsUpTo(LabelDetections, MaxLabels)}
       \/ calc \in {Call("flattenedLabels", in) : in \in CrowdedLabels}

OptimizeLabels ==
    /\ calc.fn = "flattenedLabels"
    /\ ~calc.done
    /\ calc' = Return(flattenedLabels(calc.input))
    /\ UNCHANGED queueVars

SpecLabels == InitLabels /\ [][OptimizeLabels]_vars

\* ------------------------------------------------------ prompt builder ---
\* What processVideo of the analysis service hands to the generative call
\* (constants.js 965-1115 and 1169-1174, 729-750, 625-726).  A JavaScript
\* value is kept with the answer Array.isArray gives for it.
MaxPromptEntities == 2

array(items) == [isArray |-> TRUE, value |-> items]

object(properties) == [isArray |-> FALSE, value |-> properties]

\* trackedObjects.reduce((acc, obj) => ..., {}) at 965-978, as the entries
\* of acc in insertion order.
RECURSIVE objectSummaryFrom(_, _)
objectSummaryFrom(trackedObjects, acc) ==
    IF trackedObjects = <<>> THEN acc
    ELSE LET obj == Head(trackedObjects)
             key == toLowerCase(obj.description)
             created ==
                 IF \E i \in 1..Len(acc) : acc[i].name = key THEN acc
                 ELSE Append(acc, [name |-> key, count |-> 0,
                                   confidence |-> binary64(0),
                                   occurrences |-> <<>>])
             counted ==
                 [i \in 1..Len(created) |->
                     IF created[i].name = key
                     THEN [created[i] EXCEPT
                              !.count = @ + 1,
                              !.confidence = plus(@, obj.confidence),
                              !.occurrences = Append(@, obj.timestamp)]
                     ELSE created[i]]
         IN  objectSummaryFrom(Tail(trackedObjects), counted)

\* Object.entries(objectSummary) after the averaging loop of 981-984.
objectSummary(trackedObjects) ==
    LET acc == objectSummaryFrom(trackedObjects, <<>>)
    IN  [i \in 1..Len(acc) |->
            [acc[i] EXCEPT !.confidence = dividedBy(@, acc[i].count)]]

\* text.filter(...).map(...) at 701-712; the mapped record has the fields
\* of the detection.
optimizedText(text) ==
    SelectSeq(text, LAMBDA t : atLeastThreshold(t.confidence))

optimizeVideoData(trackedObjects, detectedLabels, detectedText) ==
    LET objects == IF trackedObjects.isArray THEN trackedObjects.value
                   ELSE <<>>
        labels == IF detectedLabels.isArray THEN detectedLabels.value
                  ELSE <<>>
        text == IF detectedText.isArray THEN detectedText.value ELSE <<>>
    IN  [objects |-> optimizedObjects(objects),
         labels |-> flattenedLabels(labels),
         text |-> optimizedText(text)]

\* The values interpolated into the prompt: the transcription and the
\* three parts of optimizedData that JSON.stringify writes out.
extractPropertyDetailsWithGemini(transcription, objects, labels, text) ==
    LET optimizedData == optimizeVideoData(objects, labels, text)
    IN  [transcription |-> transcription,
         objects |-> optimizedData.objects,
         labels |-> optimizedData.labels,
         text |-> optimizedData.text]

\* From the provider's detections to the call of 1169-1174.  The inline
\* categorization loops of 987-1115 have the keyword lists and the else-if
\* chains of utils/categorizers.js.
propertyDetailsPrompt(detections) ==
    LET categorizedObjects ==
            categorizeObjects(objectSummary(detections.trackedObjects))
        categorizedLabels == categorizeLabels(detections.detectedLabels)
    IN  extractPropertyDetailsWithGemini(detections.transcription,
            object(categorizedObjects), object(categorizedLabels),
            array(detections.detectedText))

\* Calls on up to MaxPromptEntities tracked objects and labels on either
\* side of the threshold, with or without one text detection.
PromptDetections ==
    {[transcription |-> <<"h", "i">>, trackedObjects |-> o,
      detectedLabels |-> l, detectedText |-> t] :
        o \in SeqsUpTo(
                 {[description |-> d, confidence |-> binary64(c),
                   timestamp |-> 10] :
                     d \in {<<"C", "h", "a", "i", "r">>,
                            <<"l", "a", "m", "p">>},
                     c \in {69, 90}},
                 MaxPromptEntities),
        l \in SeqsUpTo(
                 {[description |-> d, confidence |-> binary64(c),
                   timestamp |-> 10] :
                     d \in {<<"W", "o", "o", "d">>, <<"s", "k", "y">>},
                     c \in {69, 90}},
                 MaxPromptEntities),
        t \in {<<>>}
              \cup {<<[text |-> <<"$", "5">>, confidence |-> binary64(c),
                       timestamp |-> 10]>> : c \in {69, 90}}}

InitPrompt ==
    /\ QueueInit
    /\ calc \in {Call("propertyDetailsPrompt", in) : in \in PromptDetections}

ExtractPropertyDetails ==
    /\ calc.fn = "propertyDetailsPrompt"
    /\ ~calc.done
    /\ calc' = Return(propertyDetailsPrompt(calc.input))
    /\ UNCHANGED queueVars

SpecPrompt == InitPrompt /\ [][ExtractPropertyDetails]_vars

\* ------------------------------------------ transcript normalization ---
\* processVideo from the provider's answer to the transcription string
\* (constants.js 263-280 in the guarded shape, 911-935 in the analysis
\* shape; VideoAnalysisService.processTranscriptionResults has the code of
\* the analysis shape).  calc holds the answer on its way to the job that
\* waits for it and, once the job has read it, the transcription.
MaxTranscriptDeliveries == 2

\* annotationResults[0] undefined
NoResults ==
    [present |-> FALSE, transcribed |-> FALSE, speechTranscriptions |-> <<>>]

\* annotationResults[0]: undefined, an object without speechTranscriptions,
\* or an object with some.  One element of speechTranscriptions has no
\* alternative, an alternative without words, or an alternative with words.
TranscriptionResults ==
    LET noAlternative == [alternatives |-> <<>>]
        silence == [alternatives |-> <<[transcript |-> <<>>]>>]
        speech == [alternatives |-> <<[transcript |-> <<"h", "i">>]>>]
    IN  {NoResults,
         [present |-> TRUE, transcribed |-> FALSE,
          speechTranscriptions |-> <<>>]}
        \cup {[present |-> TRUE, transcribed |-> TRUE,
               speechTranscriptions |-> t] :
                 t \in {<<>>, <<noAlternative>>, <<silence>>, <<speech>>,
                        <<speech, speech>>}}

\* Array.prototype.join
RECURSIVE join(_, _)
join(strings, separator) ==
    IF strings = <<>> THEN <<>>
    ELSE IF Len(strings) = 1 THEN Head(strings)
    ELSE Head(strings) \o separator \o join(Tail(strings), separator)

\* The extraction with results?.speechTranscriptions in place of the
\* `if (!results) throw`.
processTranscriptionResultsOptional(results) ==
    IF /\ variant = "guarded"
       /\ \E i \in 1..Len(results.speechTranscriptions) :
              results.speechTranscriptions[i].alternatives = <<>>
    THEN [thrown |-> TRUE, value |-> <<>>]
    ELSE [thrown |-> FALSE,
          value |-> join([i \in 1..Len(results.speechTranscriptions) |->
                             LET alternatives ==
                                     results.speechTranscriptions[i].alternatives
                             IN  IF alternatives = <<>> THEN <<>>
                                 ELSE Head(alternatives).transcript],
                         IF variant = "guarded" THEN <<"\n">> ELSE <<" ">>)]

\* What the extraction does with annotationResults[0]: it throws, or it
\* yields the transcription, each element mapped to
\* `transcription.alternatives[0]?.transcript || ""`.  The guarded shape
\* reads alternatives[0].transcript without `?.` and joins with "\n".
processTranscriptionResults(results) ==
    IF ~results.present THEN [thrown |-> TRUE, value |-> <<>>]
    ELSE IF /\ variant = "guarded"
            /\ \E i \in 1..Len(results.speechTranscriptions) :
                   results.speechTranscriptions[i].alternatives = <<>>
    THEN [thrown |-> TRUE, value |-> <<>>]
    ELSE [thrown |-> FALSE,
          value |-> join([i \in 1..Len(results.speechTranscriptions) |->
                             LET alternatives ==
                                     results.speechTranscriptions[i].alternatives
                             IN  IF alternatives = <<>> THEN <<>>
                                 ELSE Head(alternatives).transcript],
                         IF variant = "guarded" THEN <<"\n">> ELSE <<" ">>)]

\* The service right after start-up: no answer is on its way.
InitTranscript ==
    /\ QueueInit
    /\ calc = [fn |-> "processVideo", res |-> 0, stage |-> "none",
               results |-> NoResults, transcription |-> <<>>]

\* The job calc.res waits in processVideo at the given stage.
Awaiting(stage) ==
    /\ calc.stage = stage
    /\ \E j \in running : j.res = calc.res /\ j.pc = "annotate"

PostTranscript == Deliver(MaxTranscriptDeliveries)

\* The provider finishes the annotation of the running job and sends its
\* answer.
AnnotationsComplete ==
    /\ \E j \in running :
          /\ j.pc = "annotate"
          /\ j.res # calc.res
          /\ \E r \in TranscriptionResults :
                calc' = [fn |-> "processVideo", res |-> j.res,
                         stage |-> "resolved", results |-> r,
                         transcription |-> <<>>]
    /\ UNCHANGED queueVars

\* operation.promise() resolves and the extraction throws: the catch of
\* processVideo and the catch of processQueue run.
TranscriptionThrows ==
    /\ Awaiting("resolved")
    /\ processTranscriptionResults(calc.results).thrown
    /\ VideoFailed

\* operation.promise() resolves and the extraction yields the
\* transcription: processVideo goes on to its next await.
TranscriptionExtracted ==
    /\ Awaiting("resolved")
    /\ ~processTranscriptionResults(calc.results).thrown
    /\ calc' = [calc EXCEPT
                   !.stage = "transcribed",
                   !.transcription =
                       processTranscriptionResults(calc.results).value]
    /\ UNCHANGED queueVars

\* Everything after the extraction resolves.
AnalysisCompletes == Awaiting("transcribed") /\ VideoProcessed

\* Something after the extraction throws.
AnalysisFails == Awaiting("transcribed") /\ VideoFailed

NextTranscript ==
    \/ PostTranscript
    \/ TimerFires
    \/ FileExists
    \/ FileMissing
    \/ AnnotationsComplete
    \/ TranscriptionThrows
    \/ TranscriptionExtracted
    \/ AnalysisCompletes
    \/ AnalysisFails
    \/ Tick

SpecTranscript == InitTranscript /\ [][NextTranscript]_vars

\* ============================================================ claims ===
QueuedNames == {processingQueue[i].fileName : i \in 1..Len(processingQueue)}

\* C1  Single-flight: in every reachable state at most one job is Running,
\* whatever the interleaving of deliveries, completions and timer firings.
SingleFlight == Cardinality(running) <= 1

\* C1 witness: a job is Running, another waits, and a cooldown timer is due,
\* so a timer-triggered processQueue call meets a job started by an arrival.
SingleFlightWitness ==
    /\ Cardinality(running) = 1
    /\ Len(processingQueue) > 0
    /\ Len(timers) > 0
    /\ Head(timers) = 0

\* C2  At-most-once per file name: processVideo is started, and the
\* annotation provider invoked, at most once for every file name.
AtMostOncePerFileName ==
    \A f \in FileNames : starts[f] <= 1 /\ provided[f] <= 1

\* C3 (as claimed)  Dedup by delivery id: when a push envelope naming a video
\* (its delivery id never used for another file) is delivered again after
\* its earlier deliveries were answered, exactly one job was enqueued and
\* processed for it and every delivery received 200.
DedupByDeliveryIdAllSuccess ==
    (/\ lastDelivery.afterAnswered
     /\ isVideo(lastDelivery.data.name)
     /\ \A e \in envelopes :
           e[1] = lastDelivery.messageId => e[2] = lastDelivery.data.name) =>
        /\ lastDelivery.response.status = 200
        /\ ~lastDelivery.pushed
        /\ starts[lastDelivery.data.name] >= 1
        /\ \A st \in {200, 400, 429, 500} :
              <<lastDelivery.messageId, lastDelivery.data.name, st>>
                  \in envStatus => st = 200

\* C3 (amended)  A well-formed push envelope naming a file, delivered again
\* after every earlier delivery of it was answered, is answered 200 and is
\* not enqueued; the earlier deliveries were answered 200, 429 or 500.
RedeliveryAcknowledged ==
    lastDelivery.afterAnswered =>
        /\ lastDelivery.response.status = 200
        /\ ~lastDelivery.pushed
        /\ \A st \in {200, 400, 429, 500} :
              <<lastDelivery.messageId, lastDelivery.data.name, st>>
                  \in envStatus => st \in {200, 429, 500}

\* C3 witness: an envelope whose job ran comes again and is recognised by
\* its delivery id.
RedeliveryWitness ==
    /\ lastDelivery.afterAnswered
    /\ starts[lastDelivery.data.name] = 1
    /\ lastDelivery.response = Response(200, "Message already processed")

\* C4  Cooldown: a job never starts less than MIN_DELAY_MS after the
\* previous job left processQueue.
Cooldown ==
    \A j \in running : j.gap = -1 \/ j.gap >= MIN_DELAY_MS

\* C5  FIFO: the wait list is in admission order, every waiting job was
\* admitted after every job dequeued so far, and jobs complete in the order
\* in which they were started.
FifoOrder ==
    /\ \A i \in 1..Len(processingQueue) :
          /\ processingQueue[i].res > lastStarted
          /\ \A k \in 1..(i - 1) :
                processingQueue[k].res < processingQueue[i].res
    /\ \A j \in running : lastDone.res < j.res /\ j.res <= lastStarted
    /\ lastDone.res <= lastStarted

\* C5 witness: a job was dequeued from a wait list of at least two jobs,
\* after an earlier job had completed.
FifoWitness ==
    /\ lastDone.res >= 1
    /\ \E j \in running : j.queueLength >= 2

\* C6  processedFiles and failedFiles are disjoint.
ProcessedFailedDisjoint == processedFiles \cap failedFiles = {}

\* C7  Terminal outcome is recorded: the job that left Running last has its
\* file name in processedFiles if it succeeded, in failedFiles if it failed.
OutcomeRecorded ==
    lastDone.res # 0 =>
        IF lastDone.ok THEN lastDone.fileName \in processedFiles
        ELSE lastDone.fileName \in failedFiles

\* C8  A failed file is permanently excluded: no job enters Running for a
\* file name that is in failedFiles.
FailedExcluded ==
    [][\A j \in running' :
          j.res \notin {k.res : k \in running} =>
              j.fileName \notin failedFiles]_vars

\* C9  A delivery that arrives when its file name is in processedFiles is
\* answered 200 at once, leaves the wait list as it was and starts nothing.
ProcessedShortCircuit ==
    [][(/\ nreq' = nreq + 1
        /\ lastDelivery'.data.parses
        /\ lastDelivery'.data.name \in processedFiles)
       => (/\ lastDelivery'.response.status = 200
           /\ ~lastDelivery'.pushed
           /\ responses'[nreq'] = <<200>>
           /\ processingQueue' = processingQueue
           /\ running' = running
           /\ starts' = starts
           /\ provided' = provided)]_vars

\* C9 witness: a delivery was answered by the processed-file guard.
ProcessedShortCircuitWitness ==
    /\ lastDelivery.data.name \in processedFiles
    /\ lastDelivery.response.message \in
          {"File already processed", "File already processed successfully"}

\* C10  A delivery whose file name has no video extension is answered 200,
\* is never on the wait list and never reaches processVideo or the provider.
NotAVideoSkipped ==
    /\ \A f \in FileNames :
          ~isVideo(f) =>
              starts[f] = 0 /\ provided[f] = 0 /\ f \notin QueuedNames
    /\ (/\ lastDelivery.data.parses
        /\ lastDelivery.data.name # NoName
        /\ ~isVideo(lastDelivery.data.name))
       => (lastDelivery.response.status = 200 /\ ~lastDelivery.pushed)

\* C11  Bounded capacity: in every reachable state the wait list holds at
\* most MAX_QUEUE_SIZE jobs.
BoundedCapacity == Len(processingQueue) <= MAX_QUEUE_SIZE

\* C12  Every duplicate delivery is acknowledged with success: a delivery
\* whose delivery id is already seen, or whose file name is processed,
\* failed or on the wait list, is not answered 429 or 500 by the handler
\* (it is answered 200, or left to its job), whatever the queue state.
DuplicateAcknowledged ==
    [][(/\ nreq' = nreq + 1
        /\ \/ /\ lastDelivery'.kind = "push"
              /\ lastDelivery'.messageId \in processedMessageIds
           \/ /\ lastDelivery'.data.parses
              /\ lastDelivery'.data.name \in
                    processedFiles \cup failedFiles \cup QueuedNames)
       => lastDelivery'.response.status \in {0, 200}]_vars

\* The admission guards (a)..(f), numbered 1..6, that apply to delivery d in
\* the current state.
ApplyingGuards(d) ==
    LET named == d.data.parses /\ d.data.name # NoName
    IN  {g \in 1..6 :
            CASE g = 1 -> d.kind = "push" /\ d.messageId \in processedMessageIds
              [] g = 2 -> named /\ d.data.name \in processedFiles
              [] g = 3 -> named /\ d.data.name \in failedFiles
              [] g = 4 -> named /\ ~isVideo(d.data.name)
              [] g = 5 -> named /\ Len(processingQueue) >= MAX_QUEUE_SIZE
              [] g = 6 -> named /\ d.data.name \in QueuedNames}

\* The response that belongs to guard g.
GuardResponses(g) ==
    CASE g = 1 -> {Response(200, "Message already processed")}
      [] g = 2 -> {Response(200, "File already processed successfully"),
                   Response(200, "File already processed")}
      [] g = 3 -> {Response(200, "File has already failed processing")}
      [] g = 4 -> {Response(200, "File is not a video, skipping processing")}
      [] g = 5 -> {Response(429, "Processing queue is full")}
      [] g = 6 -> {Response(200, "File is already in the processing queue")}

\* C13  Guard precedence: a delivery to which several of the guards (a)..(f)
\* apply gets the response of the earliest of them in that order, and its
\* job is not added to the wait list.
GuardPrecedence ==
    [][(/\ nreq' = nreq + 1
        /\ Cardinality(ApplyingGuards(lastDelivery')) >= 2)
       => (/\ ~lastDelivery'.pushed
           /\ processingQueue' = processingQueue
           /\ \E g \in ApplyingGuards(lastDelivery') :
                 /\ \A h \in ApplyingGuards(lastDelivery') : g <= h
                 /\ lastDelivery'.response \in GuardResponses(g))]_vars

\* The delivery just handled decoded to a body without a file name.
NamelessDelivery ==
    /\ nreq' = nreq + 1
    /\ lastDelivery'.data.parses
    /\ lastDelivery'.data.name = NoName

\* C14 (as claimed)  A delivery whose decoded body lacks the file name is
\* answered 400, whether or not its delivery id is already seen.
MissingNameAlwaysRejected ==
    [][NamelessDelivery => lastDelivery'.response.status = 400]_vars

\* C14 (amended)  A delivery whose decoded body lacks the file name is
\* answered 400 before any file-name or queue check and changes neither the
\* wait list nor the dedup sets, unless it is a push delivery whose
\* delivery id is already seen: that one is acknowledged with 200 before
\* its payload is decoded.
MissingNameRejected ==
    [][NamelessDelivery =>
          IF /\ lastDelivery'.kind = "push"
             /\ lastDelivery'.messageId \in processedMessageIds
          THEN lastDelivery'.response =
                  Response(200, "Message already processed")
          ELSE /\ lastDelivery'.response =
                     Response(400, "Missing fileName in request")
               /\ ~lastDelivery'.pushed
               /\ UNCHANGED <<processingQueue, processedFiles, failedFiles,
                              processedMessageIds, running>>]_vars

\* C14 witness: a push delivery without a file name was answered 400 while
\* the dedup sets were not empty.
MissingNameWitness ==
    /\ lastDelivery.kind = "push"
    /\ lastDelivery.data.parses
    /\ lastDelivery.data.name = NoName
    /\ lastDelivery.response = Response(400, "Missing fileName in request")
    /\ processedMessageIds # {}
    /\ processedFiles # {}

\* The delivery just handled is a push envelope whose message.data does not
\* survive base64 decoding and JSON.parse.
MalformedDelivery ==
    /\ nreq' = nreq + 1
    /\ lastDelivery'.kind = "push"
    /\ ~lastDelivery'.data.parses

\* C15 (as claimed)  A push delivery with a malformed payload is answered
\* 400, is not enqueued, and leaves the wait list and the three dedup sets
\* unchanged.
MalformedAlwaysRejected ==
    [][MalformedDelivery =>
          /\ lastDelivery'.response.status = 400
          /\ ~lastDelivery'.pushed
          /\ UNCHANGED <<processingQueue, processedFiles, failedFiles,
                         processedMessageIds>>]_vars

\* C15 (amended)  A push delivery with a malformed payload is not enqueued
\* and leaves the wait list and the three dedup sets unchanged; it is
\* answered 400, unless its delivery id is already seen: then the payload
\* is never decoded and the delivery is acknowledged with 200.
MalformedRejected ==
    [][MalformedDelivery =>
          /\ lastDelivery'.response =
                IF lastDelivery'.messageId \in processedMessageIds
                THEN Response(200, "Message already processed")
                ELSE Response(400, "Invalid Pub/Sub message format")
          /\ ~lastDelivery'.pushed
          /\ UNCHANGED <<processingQueue, processedFiles, failedFiles,
                         processedMessageIds, running>>]_vars

\* C15 witness: a malformed push delivery was answered 400 while a job was
\* waiting and the dedup sets were not empty.
MalformedWitness ==
    /\ lastDelivery.kind = "push"
    /\ ~lastDelivery.data.parses
    /\ lastDelivery.response = Response(400, "Invalid Pub/Sub message format")
    /\ Len(processingQueue) > 0
    /\ processedMessageIds # {}

Waiting(r) == \E i \in 1..Len(processingQueue) : processingQueue[i].res = r

Running(r) == \E j \in running : j.res = r

Answered(r) == Len(responses) >= r /\ responses[r] # <<>>

\* C16  A failing job does not halt the queue: every job on the wait list
\* eventually runs, and every running job is eventually answered (200 or
\* 500), whatever the outcomes of the jobs before it.
QueueDrains ==
    \A r \in 1..MaxLiveDeliveries :
        /\ Waiting(r) ~> Running(r)
        /\ Running(r) ~> Answered(r)

\* C16 witness: a job has failed, nothing runs, and another job waits for
\* the cooldown timer.
QueueDrainsWitness ==
    /\ lastDone.res # 0
    /\ ~lastDone.ok
    /\ responses[lastDone.res] = <<500>>
    /\ ~isProcessing
    /\ Len(processingQueue) > 0
    /\ Len(timers) > 0

\* C17  Exactly-once response: a delivery whose job waits or runs has no
\* response yet; every other delivery has exactly one; the response of a
\* job is written when it completes (200) or fails (500).
ExactlyOnceResponse ==
    /\ Len(responses) = nreq
    /\ \A r \in 1..nreq :
          IF Waiting(r) \/ Running(r)
          THEN responses[r] = <<>>
          ELSE Len(responses[r]) = 1
    /\ lastDone.res # 0 =>
          responses[lastDone.res] = <<IF lastDone.ok THEN 200 ELSE 500>>

\* C17 witness: a job that was not the first delivery has been answered
\* on completion, and the first delivery has its one response too.
ExactlyOnceWitness ==
    /\ lastDone.res >= 2
    /\ Len(responses[lastDone.res]) = 1
    /\ Len(responses[1]) = 1
    /\ \E r \in 1..nreq : Waiting(r) \/ Running(r)

\* C18  The three dedup sets only grow: no step removes an element from
\* processedFiles, failedFiles or processedMessageIds.
DedupSetsGrow ==
    [][/\ processedFiles \subseteq processedFiles'
       /\ failedFiles \subseteq failedFiles'
       /\ processedMessageIds \subseteq processedMessageIds']_vars

\* C18 witness: all three sets hold an element and a further job, for a
\* file that has already failed, is running.
DedupSetsGrowWitness ==
    /\ processedFiles # {}
    /\ processedMessageIds # {}
    /\ \E j \in running : j.fileName \in failedFiles

\* The buckets of a categorizer's result, in the order its tests are made.
BucketNames(fn) ==
    CASE fn = "categorizeObjects" ->
            <<"furniture", "appliances", "fixtures", "other">>
      [] fn = "categorizeLabels" ->
            <<"rooms", "styles", "materials", "features", "other">>
      [] fn = "categorizeText" -> <<"prices", "propertyDetails", "other">>

\* What a categorizer is to put in a bucket for the input entity e.
BucketItem(fn, e) == IF fn = "categorizeLabels" THEN labelItem(e) ELSE e

\* The input entity e matches no keyword of its categorizer.
MatchesNothing(fn, e) ==
    CASE fn = "categorizeObjects" ->
            \A c \in {"FURNITURE", "APPLIANCES", "FIXTURES"} :
                ~some(KEYWORDS[c], toLowerCase(e.name))
      [] fn = "categorizeLabels" ->
            /\ \A c \in {"ROOMS", "STYLES", "MATERIALS"} :
                  ~some(KEYWORDS[c], toLowerCase(e.description))
            /\ ~includes(toLowerCase(e.description), featureWord)
            /\ ~includes(toLowerCase(e.description), designWord)
      [] fn = "categorizeText" ->
            /\ ~includes(e.text, dollarSign)
            /\ ~hasDigits(e.text)
            /\ ~some(propertyWords, toLowerCase(e.text))

RECURSIVE TotalLength(_, _)
TotalLength(out, names) ==
    IF names = <<>> THEN 0
    ELSE Len(out[Head(names)]) + TotalLength(out, Tail(names))

\* C19  Categorization is total and exclusive: the result has exactly the
\* fixed buckets, every input entity is in exactly one of them, the bucket
\* sizes sum to the number of input entities, and an entity matching no
\* keyword is in `other`.
CategorizationTotalExclusive ==
    (calc.fn \in {"categorizeObjects", "categorizeLabels", "categorizeText"}
     /\ calc.done) =>
        LET names == BucketNames(calc.fn)
            out == calc.output
        IN  /\ DOMAIN out = Range(names)
            /\ TotalLength(out, names) = Len(calc.input)
            /\ \A i \in 1..Len(calc.input) :
                  LET item == BucketItem(calc.fn, calc.input[i])
                  IN  /\ Cardinality({b \in Range(names) :
                                         item \in Range(out[b])}) = 1
                      /\ MatchesNothing(calc.fn, calc.input[i]) =>
                            item \in Range(out.other)

\* C19 witness: categorizeLabels has returned for a label that matches the
\* keywords of two categories and a label that matches none.
CategorizationWitness ==
    /\ calc.fn = "categorizeLabels"
    /\ calc.done
    /\ \E i, k \in 1..Len(calc.input) :
          /\ some(KEYWORDS.ROOMS, toLowerCase(calc.input[i].description))
          /\ some(KEYWORDS.STYLES, toLowerCase(calc.input[i].description))
          /\ labelItem(calc.input[i]) \in Range(calc.output.rooms)
          /\ MatchesNothing("categorizeLabels", calc.input[k])
          /\ labelItem(calc.input[k]) \in Range(calc.output.other)

\* The detections of the entity with the given key, in input order.
DetectionsOf(key, objects) ==
    SelectSeq(objects, LAMBDA o : toLowerCase(o.description) = key)

Ascending(ds) ==
    \A i \in 1..(Len(ds) - 1) : ds[i].timestamp <= ds[i + 1].timestamp

RECURSIVE SumConfidence(_)
SumConfidence(ds) ==
    IF ds = <<>> THEN 0 ELSE Head(ds).confidence + SumConfidence(Tail(ds))

\* C20  Aggregation arithmetic: the aggregate has one entity per lowercased
\* non-empty description, and for an entity whose detections come in
\* ascending timestamp order count is their number, averageConfidence the
\* sum of their confidences divided by count, firstSeen the first
\* timestamp and lastSeen the last.
AggregationArithmetic ==
    (calc.fn = "processedObjects" /\ calc.done) =>
        /\ DOMAIN calc.output =
              {toLowerCase(calc.input[i].description) :
                  i \in 1..Len(calc.input)} \ {<<>>}
        /\ \A key \in DOMAIN calc.output :
              LET ds == DetectionsOf(key, calc.input)
                  entity == calc.output[key]
              IN  Ascending(ds) =>
                      /\ entity.count = Len(ds)
                      /\ entity.averageConfidence.den > 0
                      /\ entity.averageConfidence.num * Len(ds)
                            = SumConfidence(ds) * entity.averageConfidence.den
                      /\ entity.firstSeen = ds[1].timestamp
                      /\ entity.lastSeen = ds[Len(ds)].timestamp

\* C20 witness: (lamp, 0.9, 1), (lamp, 0.5, 2) has been aggregated to
\* count 2, average 0.7, firstSeen 1, lastSeen 2.
AggregationWitness ==
    /\ calc.fn = "processedObjects"
    /\ calc.done
    /\ calc.input =
          << [description |-> <<"l", "a", "m", "p">>, confidence |-> 90,
              timestamp |-> 1],
             [description |-> <<"l", "a", "m", "p">>, confidence |-> 50,
              timestamp |-> 2] >>
    /\ LET lamp == calc.output[<<"l", "a", "m", "p">>]
       IN  /\ lamp.count = 2
           /\ lamp.averageConfidence.num = 70 * lamp.averageConfidence.den
           /\ lamp.firstSeen = 1
           /\ lamp.lastSeen = 2

\* C21  Confidence filter boundary: with threshold 0.7 an entity is in the
\* final aggregate mapping if and only if the average of the confidences of
\* its folded detections is at least 0.7; 0.69 is absent, exactly 0.70 is
\* present.
OnInterval(obj) ==
    obj.timestamp % (FRAME_INTERVAL_SECONDS * TenthsPerSecond) = 0

FoldedOf(key, objects) ==
    {i \in 1..Len(objects) :
        toLowerCase(objects[i].description) = key /\ OnInterval(objects[i])}

Hundredths(confidence) ==
    CHOOSE h \in ConfidenceLiterals : binary64(h) = confidence

RECURSIVE SumHundredths(_, _)
SumHundredths(indices, objects) ==
    IF indices = {} THEN 0
    ELSE LET i == CHOOSE j \in indices : TRUE
         IN  Hundredths(objects[i].confidence)
             + SumHundredths(indices \ {i}, objects)

Optimized == calc.fn = "optimizedObjects" /\ calc.done

ConfidenceFilterBoundary ==
    Optimized =>
        \A i \in 1..Len(calc.input) :
            LET key == toLowerCase(calc.input[i].description)
                folded == FoldedOf(key, calc.input)
            IN  folded # {} =>
                    (key \in DOMAIN calc.output
                        <=> SumHundredths(folded, calc.input)
                                >= 70 * Cardinality(folded))

\* C22  For every entity of the aggregate produced from any detection
\* sequence, by either aggregator, count equals the length of its occurrences
\* list.
CountIsOccurrences ==
    calc.done /\ calc.fn \in {"processedObjects", "optimizedObjects"} =>
        \A key \in DOMAIN calc.output :
            calc.output[key].count = Len(calc.output[key].occurrences)

\* An entity kept with two folded detections and a third one off the frame
\* interval.
CountIsOccurrencesWitness ==
    /\ Optimized
    /\ \E key \in DOMAIN calc.output :
          /\ calc.output[key].count = 2
          /\ Len(calc.output[key].occurrences) = 2
          /\ \E i \in 1..Len(calc.input) :
                /\ toLowerCase(calc.input[i].description) = key
                /\ ~OnInterval(calc.input[i])

\* C23  No entity of the final aggregate mapping has count = 0: an entity none
\* of whose detections survive the confidence filter or the frame-interval
\* filter is removed, never retained with zero occurrences.
NoEmptyEntity ==
    Optimized => \A key \in DOMAIN calc.output : calc.output[key].count > 0

\* C24  Storage degradation is never fatal: whatever the availability of the
\* backing store over time, storeVideoAnalysis and storeProcessedAnalysis
\* called with valid arguments return an identifier and never throw.
StorageDegradationNotFatal ==
    Service /\ calc.call.valid => calc.call.pc # "thrown"

\* C25  A duplicate delivery carrying the delivery id (and file name) of a job
\* that is still Queued or Running is never enqueued as a second job: no two
\* unfinished jobs come from the same envelope.
UnfinishedJobs ==
    {[res |-> j.res, messageId |-> j.messageId, fileName |-> j.fileName] :
        j \in Range(processingQueue) \cup running}

DuplicateNeverEnqueued ==
    \A j1, j2 \in UnfinishedJobs :
        /\ j1.messageId # NoId
        /\ j1.messageId = j2.messageId
        /\ j1.fileName = j2.fileName
        => j1.res = j2.res

\* C26  Whenever a job that carries a delivery id is Running, that id is
\* already in SeenDeliveryIds, and it is still there after the job failed.
SeenBeforeRunning ==
    /\ \A j \in running :
          j.messageId # NoId => j.messageId \in processedMessageIds
    /\ \A e \in envStatus : e[3] = 500 => e[1] \in processedMessageIds

\* C27  In every reachable state no two jobs in the wait list have the same
\* file name.
QueuedNamesDistinct ==
    \A i, k \in 1..Len(processingQueue) :
        processingQueue[i].fileName = processingQueue[k].fileName => i = k

\* C28  A delivery rejected with 429 for capacity is not recorded as handled:
\* the rejection leaves SeenDeliveryIds as it was, so the same envelope can
\* be admitted when it is redelivered.
Delivered == nreq' = nreq + 1

RejectionNotRecorded ==
    [][Delivered /\ lastDelivery'.response.status = 429
          => processedMessageIds' = processedMessageIds]_vars

\* C29  Every short-circuited or rejected delivery (delivery id seen, file
\* processed, file failed, not a video, queue full, file already queued,
\* missing name, malformed payload) leaves the wait list, processedFiles,
\* failedFiles and isProcessing unchanged.
ShortCircuitFrame ==
    [][Delivered /\ lastDelivery'.response.status # 0
          => UNCHANGED <<processingQueue, processedFiles, failedFiles,
                         isProcessing>>]_vars

\* A delivery rejected for capacity while a job runs and the wait list is
\* full.
ShortCircuitFrameWitness ==
    /\ lastDelivery.response.status = 429
    /\ Len(processingQueue) = MAX_QUEUE_SIZE
    /\ isProcessing

\* C30  No lost wake-up: if the wait list is non-empty and no job is Running,
\* a timer that will call processQueue is pending.
NoLostWakeup ==
    Len(processingQueue) > 0 /\ running = {} => Len(timers) > 0

NoLostWakeupWitness ==
    /\ Len(processingQueue) > 0
    /\ running = {}
    /\ ~isProcessing
    /\ Len(timers) > 0
    /\ lastDone.res > 0

\* C31  Aggregation key normalization: the key of a detection is its
\* lowercased, whitespace-trimmed description; detections whose descriptions
\* differ only in letter case or in leading or trailing whitespace are folded
\* into one entity, and a detection whose description is empty or
\* whitespace-only is skipped.
NormalizedKey(description) == toLowerCase(trim(description))

Aggregated == calc.done /\ calc.fn \in {"processedObjects", "optimizedObjects"}

KeyNormalization ==
    Aggregated =>
        /\ \A key \in DOMAIN calc.output :
              key # <<>> /\ key = NormalizedKey(key)
        /\ \A i \in 1..Len(calc.input) :
              LET key == NormalizedKey(calc.input[i].description)
                  same == {j \in 1..Len(calc.input) :
                              NormalizedKey(calc.input[j].description) = key}
                  folded == IF calc.fn = "processedObjects" THEN same
                            ELSE {j \in same : OnInterval(calc.input[j])}
              IN  key # <<>> =>
                      /\ calc.fn = "processedObjects"
                            => key \in DOMAIN calc.output
                      /\ key \in DOMAIN calc.output
                            => calc.output[key].count = Cardinality(folded)

\* C32  For every aggregated entity and any order of the input detections,
\* firstSeen is the smallest and lastSeen the largest timestamp among its
\* occurrences, so timeSpan = lastSeen - firstSeen is never negative.
Processed == calc.fn = "processedObjects" /\ calc.done

FirstLastSeen ==
    Processed =>
        \A key \in DOMAIN calc.output :
            LET entity == calc.output[key]
                seen == {entity.occurrences[i].timestamp :
                            i \in 1..Len(entity.occurrences)}
            IN  /\ \A t \in seen : entity.firstSeen <= t /\ t <= entity.lastSeen
                /\ entity.firstSeen \in seen
                /\ entity.lastSeen \in seen
                /\ entity.timeSpan = entity.lastSeen - entity.firstSeen
                /\ entity.timeSpan >= 0

\* C33  For every aggregated entity frequency equals count divided by
\* max(timeSpan, 1), for every detection sequence over integer timestamps: it
\* is positive and never exceeds count.
FrequencyFormula ==
    Processed =>
        \A key \in DOMAIN calc.output :
            LET entity == calc.output[key]
                f == entity.frequency
            IN  /\ f.den # 0
                /\ f.num * Max(entity.timeSpan, 1) = entity.count * f.den
                /\ f.num * f.den > 0

\* C34  Text window aggregation: text detections are partitioned by window =
\* floor(timestamp / 5); every input detection contributes to exactly one
\* merged record, and each merged record has the space-join of its members
\* in input order as text, their maximum confidence, their minimum timestamp,
\* duration = max - min timestamp and frequency = member count.
RECURSIVE Join(_)
Join(texts) ==
    IF texts = <<>> THEN <<>>
    ELSE IF Len(texts) = 1 THEN texts[1].text
    ELSE texts[1].text \o <<" ">> \o Join(Tail(texts))

MembersOf(window, text) ==
    SelectSeq(text, LAMBDA t : t.timestamp \div 5 = window)

Combined == calc.fn = "combinedText" /\ calc.done

\* What holds of every merged record but its text.
WindowRecords ==
    /\ {calc.output[k].timestamp \div 5 : k \in 1..Len(calc.output)}
          = {calc.input[i].timestamp \div 5 : i \in 1..Len(calc.input)}
    /\ \A k, m \in 1..Len(calc.output) :
          calc.output[k].timestamp \div 5 = calc.output[m].timestamp \div 5
              => k = m
    /\ \A k \in 1..Len(calc.output) :
          LET record == calc.output[k]
              members == MembersOf(record.timestamp \div 5, calc.input)
              stamps == {members[i].timestamp : i \in 1..Len(members)}
          IN  /\ Len(members) > 0
              /\ record.confidence \in
                    {members[i].confidence : i \in 1..Len(members)}
              /\ \A i \in 1..Len(members) :
                    members[i].confidence <= record.confidence
              /\ record.timestamp \in stamps
              /\ \A t \in stamps : record.timestamp <= t
              /\ record.timestamp + record.context.duration \in stamps
              /\ \A t \in stamps :
                    t <= record.timestamp + record.context.duration
              /\ record.context.frequency = Len(members)

TextWindowsJoined ==
    Combined =>
        /\ WindowRecords
        /\ \A k \in 1..Len(calc.output) :
              calc.output[k].text
                  = Join(MembersOf(calc.output[k].timestamp \div 5,
                                   calc.input))

\* The same with the joined text trimmed.
TextWindows ==
    Combined =>
        /\ WindowRecords
        /\ \A k \in 1..Len(calc.output) :
              calc.output[k].text
                  = trim(Join(MembersOf(calc.output[k].timestamp \div 5,
                                        calc.input)))

\* Two windows, the first with two members of different confidence and
\* timestamp.
TextWindowsWitness ==
    /\ Combined
    /\ Len(calc.input) = 3
    /\ Len(calc.output) = 2
    /\ calc.output[1].text = <<"a", " ", "b", "c">>
    /\ calc.output[1].confidence = 90
    /\ calc.output[1].context.duration = 4
    /\ calc.output[1].context.frequency = 2

\* C35  First-match-wins priority by substring containment: an object lands
\* in the first of furniture, appliances, fixtures whose keywords its
\* lowercased name contains; a label lands in the first of rooms, styles,
\* materials, then features (contains "feature" or "design"); what matches
\* nothing lands in other.
FirstMatch(fn, e) ==
    IF fn = "categorizeObjects"
    THEN LET name == toLowerCase(e.name)
         IN  IF some(KEYWORDS.FURNITURE, name) THEN "furniture"
             ELSE IF some(KEYWORDS.APPLIANCES, name) THEN "appliances"
             ELSE IF some(KEYWORDS.FIXTURES, name) THEN "fixtures"
             ELSE "other"
    ELSE LET description == toLowerCase(e.description)
         IN  IF some(KEYWORDS.ROOMS, description) THEN "rooms"
             ELSE IF some(KEYWORDS.STYLES, description) THEN "styles"
             ELSE IF some(KEYWORDS.MATERIALS, description) THEN "materials"
             ELSE IF \/ includes(description, featureWord)
                     \/ includes(description, designWord)
             THEN "features"
             ELSE "other"

FirstMatchWins ==
    (calc.fn \in {"categorizeObjects", "categorizeLabels"} /\ calc.done) =>
        \A i \in 1..Len(calc.input) :
            \A b \in Range(BucketNames(calc.fn)) :
                BucketItem(calc.fn, calc.input[i]) \in Range(calc.output[b])
                    <=> b = FirstMatch(calc.fn, calc.input[i])

\* An object whose name contains a furniture and a fixture keyword is
\* furniture, next to one with an appliance and a fixture keyword.
FirstMatchWinsWitness ==
    /\ calc.fn = "categorizeObjects"
    /\ calc.done
    /\ \E i, k \in 1..Len(calc.input) :
          /\ some(KEYWORDS.FURNITURE, toLowerCase(calc.input[i].name))
          /\ some(KEYWORDS.FIXTURES, toLowerCase(calc.input[i].name))
          /\ calc.input[i] \in Range(calc.output.furniture)
          /\ ~some(KEYWORDS.FURNITURE, toLowerCase(calc.input[k].name))
          /\ some(KEYWORDS.APPLIANCES, toLowerCase(calc.input[k].name))
          /\ some(KEYWORDS.FIXTURES, toLowerCase(calc.input[k].name))
          /\ calc.input[k] \in Range(calc.output.appliances)

\* C36  Text categorization evaluates the price test first: a text with a
\* currency symbol or a digit is a price even if it also contains a
\* property-detail keyword; otherwise it is a propertyDetail if it contains
\* one of those keywords, and other otherwise.
CurrencySymbols == {"$", "€"}

TextBucket(text, symbols) ==
    IF (\E i \in 1..Len(text) : text[i] \in symbols) \/ hasDigits(text)
    THEN "prices"
    ELSE IF some(propertyWords, toLowerCase(text)) THEN "propertyDetails"
    ELSE "other"

TextCategorized == calc.fn = "categorizeText" /\ calc.done

PriceFirstAnyCurrency ==
    TextCategorized =>
        \A i \in 1..Len(calc.input) :
            \A b \in Range(BucketNames("categorizeText")) :
                calc.input[i] \in Range(calc.output[b])
                    <=> b = TextBucket(calc.input[i].text, CurrencySymbols)

\* The same with the dollar sign as the only currency symbol.
PriceFirst ==
    TextCategorized =>
        \A i \in 1..Len(calc.input) :
            \A b \in Range(BucketNames("categorizeText")) :
                calc.input[i] \in Range(calc.output[b])
                    <=> b = TextBucket(calc.input[i].text, {"$"})

\* A text with a digit and a property-detail keyword among the prices, next
\* to one with the keyword alone.
PriceFirstWitness ==
    /\ TextCategorized
    /\ \E i, k \in 1..Len(calc.input) :
          /\ hasDigits(calc.input[i].text)
          /\ some(propertyWords, toLowerCase(calc.input[i].text))
          /\ calc.input[i] \in Range(calc.output.prices)
          /\ ~hasDigits(calc.input[k].text)
          /\ calc.input[k] \in Range(calc.output.propertyDetails)

\* C39  Label reduction in optimizeVideoData: the output holds only labels
\* with confidence at least 0.7, at most MAX_LABELS_PER_SEGMENT of them per
\* one-second segment, in non-increasing confidence order; and every label
\* with confidence at least 0.7 is retained unless its segment already
\* holds MAX_LABELS_PER_SEGMENT labels, the labels at timestamp 0 included.
SegmentOf(label) ==
    label.timestamp \div (FRAME_INTERVAL_SECONDS * TenthsPerSecond)

Flattened == calc.fn = "flattenedLabels" /\ calc.done

\* The positions of the input whose label the claim has retained.
RetainedLabels(labels) ==
    {i \in 1..Len(labels) :
        /\ atLeastThreshold(labels[i].confidence)
        /\ Cardinality({k \in 1..(i - 1) :
               /\ atLeastThreshold(labels[k].confidence)
               /\ SegmentOf(labels[k]) = SegmentOf(labels[i])})
             < MAX_LABELS_PER_SEGMENT}

LabelReduction ==
    Flattened =>
        LET in == calc.input
            out == calc.output
        IN  /\ \A i \in 1..Len(out) : atLeastThreshold(out[i].confidence)
            /\ \A i \in 1..Len(out) :
                   Cardinality({k \in 1..Len(out) :
                                   SegmentOf(out[k]) = SegmentOf(out[i])})
                     <= MAX_LABELS_PER_SEGMENT
            /\ \A i \in 1..(Len(out) - 1) :
                   ~lessThan(out[i].confidence, out[i + 1].confidence)
            /\ \A label \in Range(in) \cup Range(out) :
                   Cardinality({i \in 1..Len(out) : out[i] = label})
                     = Cardinality({i \in RetainedLabels(in) : in[i] = label})

\* C37  The categorized, confidence-filtered summary reaches the generative
\* call: whenever processVideo has detected at least one object entity and
\* one label whose confidence is at least the threshold, the objects and
\* labels sections of the prompt payload are non-empty and contain those
\* entities.
ConfidentObjects(detections) ==
    {toLowerCase(obj.description) :
        obj \in {o \in Range(detections.trackedObjects) :
                    atLeastThreshold(o.confidence)}}

ConfidentLabels(detections) ==
    {label.description :
        label \in {l \in Range(detections.detectedLabels) :
                      atLeastThreshold(l.confidence)}}

PromptBuilt == calc.fn = "propertyDetailsPrompt" /\ calc.done

SummaryReachesPrompt ==
    /\ PromptBuilt
    /\ ConfidentObjects(calc.input) # {}
    /\ ConfidentLabels(calc.input) # {}
    => /\ DOMAIN calc.output.objects # {}
       /\ calc.output.labels # <<>>
       /\ ConfidentObjects(calc.input) \subseteq DOMAIN calc.output.objects
       /\ ConfidentLabels(calc.input)
             \subseteq {calc.output.labels[i].description :
                           i \in 1..Len(calc.output.labels)}

\* C38  Transcript normalization distinguishes absence from emptiness: if
\* the provider returns no transcript result container, the job fails (its
\* file name is added to failedFiles and its caller is answered 500); if
\* the container is present but holds no transcriptions, the transcript is
\* the empty string and the job continues.
HoldsNoTranscriptions(results) ==
    results.present /\ results.speechTranscriptions = <<>>

\* The job j reads the provider's answer in this step.
ReadsAnswer(j) ==
    /\ calc.stage = "resolved"
    /\ j.res = calc.res
    /\ j.pc = "annotate"
    /\ (j \notin running' \/ calc' # calc)

AbsenceVersusEmptiness ==
    [][\A j \in running :
          ReadsAnswer(j) =>
              /\ ~calc.results.present =>
                    /\ j \notin running'
                    /\ j.fileName \in failedFiles'
                    /\ responses'[j.res] = <<500>>
              /\ HoldsNoTranscriptions(calc.results) =>
                    /\ j \in running'
                    /\ calc'.stage = "transcribed"
                    /\ calc'.transcription = <<>>
                    /\ failedFiles' = failedFiles
                    /\ responses'[j.res] = <<>>]_vars

\* C38 witness: a job whose answer had no container has failed with 500.
AbsenceVersusEmptinessWitness ==
    /\ calc.stage = "resolved"
    /\ ~calc.results.present
    /\ lastDone.res = calc.res
    /\ ~lastDone.ok
    /\ lastDone.fileName \in failedFiles
    /\ responses[calc.res] = <<500>>

====
